---- MODULE Spec2Model ----
(***************************************************************************)
(* Model of the YuniKorn scheduler core: the application state machine,   *)
(* the partition scheduling context with its two-phase allocation         *)
(* protocol and reservation indexes, the scheduling node ledger and the   *)
(* queue allocation accounting.                                            *)
(***************************************************************************)
EXTENDS Integers, Sequences, FiniteSets, TLC

(***************************************************************************)
(* Bounds of the model                                                     *)
(***************************************************************************)
\* number of applications driven through the application state machine
NumFsmApps == 2

\* number of application IDs, node IDs, allocation keys and leaf queues of the partition
NumApps == 1
NumNodes == 2
NumAsks == 2
NumLeaves == 1
\* largest repeat of an ask when it is added
MaxRepeat == 1
\* largest number of allocations in flight between the try and the confirmation
MaxInFlight == 2
\* largest memory the root queue may have allocating when the driver allocates again
MaxAllocating == 2
\* how far below zero a count of reservedApps may be when it is counted down again
MaxDrift == 1

FsmApps == 1..NumFsmApps

(***************************************************************************)
(* State of the model                                                      *)
(***************************************************************************)
VARIABLES
    appState,     \* FsmApps -> current state of the application's FSM
    stateTimer,   \* FsmApps -> TRUE while the application's state timer is armed
    wasStarting,  \* FsmApps -> TRUE once the application has been in state Starting
    fired         \* the last event handed to an FSM: application, event, source state, error

fsmVars == <<appState, stateTimer, wasStarting, fired>>

VARIABLES
    applications,      \* psc.applications: the IDs of the registered applications
    appQueue,          \* app.queue: the leaf queue of a registered application
    appAllocating,     \* app.allocating
    appPending,        \* app.pending
    requests,          \* app.requests: allocation key -> pending repeat of the ask
    appReservations,   \* app.reservations: the <<allocation key, nodeID>> pairs reserved
    nodes,             \* psc.nodes: the IDs of the registered nodes
    nodeAllocating,    \* node.allocating
    nodeReservations,  \* node.reservations: the <<appID, allocation key>> pairs reserved
    reservedApps,      \* psc.reservedApps: appID -> number of reservations
    queueAllocating,   \* queue.allocating, for the root and every leaf
    alloc,             \* the schedulingAllocation the driver holds between try* and allocate
    proposals,         \* proposals handed to the cache and not yet answered
    released,          \* reservations released by an ask removal, not yet counted down
    last               \* the last partition operation and what it returned

partVars == <<applications, appQueue, appAllocating, appPending, requests, appReservations,
              nodes, nodeAllocating, nodeReservations, reservedApps, queueAllocating, alloc, proposals, released, last>>

VARIABLES
    allocatedResource,  \* QueueInfo.allocatedResource of every queue of the queue tree
    qLast               \* the last allocated-resource operation on the queue tree and its error

queueVars == <<allocatedResource, qLast>>

VARIABLES
    nodeInfoAvailable,            \* nodeInfo.GetAvailableResource() of the cache node
    snAllocating,                 \* schedulingNode.allocating
    snPreempting,                 \* schedulingNode.preempting
    cachedAvailable,              \* schedulingNode.cachedAvailable
    cachedAvailableUpdateNeeded,  \* schedulingNode.cachedAvailableUpdateNeeded
    snLast                        \* the last operation on the scheduling node and its result

nodeVars == <<nodeInfoAvailable, snAllocating, snPreempting, cachedAvailable,
              cachedAvailableUpdateNeeded, snLast>>

VARIABLES
    rsNodes,         \* the nodes registered with the partition
    rsSchedulable,   \* nodeInfo.IsSchedulable() per node
    rsReservations,  \* schedulingNode.reservations per node, as a set of reservation keys
    rsLast           \* the last reserve, unReserve or node listing and its result

reserveVars == <<rsNodes, rsSchedulable, rsReservations, rsLast>>

VARIABLES
    faApps,    \* the applications of the queue: state, pending resource, submission time
    faOrder,   \* the order in which the map of the applications is iterated
    faResult,  \* the candidate list StateAwareFilter returned
    faDone     \* whether the filter has run

filterVars == <<faApps, faOrder, faResult, faDone>>

VARIABLES
    slmSorted,             \* whether the map was built with a compareFunc
    slmList,               \* the linked list from head to tail: key, value, isMatched
    slmFirstMatchedEntry,  \* the key of slm.firstMatchedEntry, NilEntry for nil
    slmLast                \* the last operation on the map

mapVars == <<slmSorted, slmList, slmFirstMatchedEntry, slmLast>>

VARIABLES
    qlQueues,  \* per queue below the root: exists, isManaged, state, allocated, applications
    qlLast     \* the last MarkQueueForRemoval or RemoveQueue and its result

lifeVars == <<qlQueues, qlLast>>

VARIABLES
    lkPc,    \* per goroutine: the operation it runs and its next lock call
    lkHeld   \* per goroutine: the locks it holds, each with its mode

lockVars == <<lkPc, lkHeld>>

VARIABLES
    asCache,         \* per queue name: no cache queue, a leaf or a parent queue of the cache
    asQueues,        \* the names of the scheduling queues
    asAcl,           \* per queue name: the submit ACL of the queue grants the user
    asApplications,  \* the applications map of the partition
    asQueueApps,     \* per queue name: the applications of the scheduling queue
    asLast           \* the last addSchedulingApplication and its result

submitVars == <<asCache, asQueues, asAcl, asApplications, asQueueApps, asLast>>

VARIABLES
    rrSize,      \* the length of the node list of the iterator
    rrStartIdx,  \* startIdx
    rrCountIdx,  \* countIdx
    rrReturned,  \* the indexes of the nodes returned by Next in this epoch
    rrLast       \* the last call on the iterator, its result, the indexes before it

iterVars == <<rrSize, rrStartIdx, rrCountIdx, rrReturned, rrLast>>

VARIABLES
    rcNodes,             \* psc.nodes
    rcAppReservations,   \* app.reservations: the <<allocation key, nodeID>> pairs
    rcNodeReservations,  \* per node: the allocation keys the application has reserved on it
    rcReservedApps,      \* psc.reservedApps
    rcAlloc,             \* the allocation the driver holds between tryAllocate and allocate
    rcReleased           \* the reservations an ask removal released, not yet counted

countVars == <<rcNodes, rcAppReservations, rcNodeReservations, rcReservedApps, rcAlloc, rcReleased>>

VARIABLES
    raAllocating,  \* sn.allocating of the node
    raGranted,     \* the total of the allocateResource calls that returned true and were not undone
    raCallers      \* per caller: where it is, the resource it asks for, the allocating resource its check saw

raceVars == <<raAllocating, raGranted, raCallers>>

VARIABLES
    rkReservations,  \* sn.reservations: the keys with the ID of the application that reserved
    rkLast           \* the last call on the node and what it returned

keyVars == <<rkReservations, rkLast>>

VARIABLES
    skRequests,    \* the slice of requests handed to SortAskByPriority
    skLast         \* the last operation on the slice

sortVars == <<skRequests, skLast>>

VARIABLES
    spStopped,         \* shimPublisher.stopped
    spPc,              \* the position of the publishing goroutine
    spPlugin,          \* an event plugin is registered
    spStore,           \* the number of events in the store
    spMessages,        \* the number of collected messages
    spSendsAfterStop,  \* the SendEvent calls made since Stop
    spPanicked         \* a second Stop has panicked

publisherVars == <<spStopped, spPc, spPlugin, spStore, spMessages, spSendsAfterStop, spPanicked>>

VARIABLES
    llSorted,              \* the map has a compareFunc
    llEntries,             \* slm.entries: the keys of the hash index
    llNodes,               \* the entry of each key: value, pre, next, isMatched
    llHead,                \* slm.head
    llTail,                \* slm.tail
    llFirstMatchedEntry,   \* slm.firstMatchedEntry
    llPuts,                \* for each key the value of its latest Put not followed by a Remove
    llLast                 \* the last operation on the map

linkedVars == <<llSorted, llEntries, llNodes, llHead, llTail, llFirstMatchedEntry, llPuts, llLast>>

vars ==
    <<fsmVars, partVars, queueVars, nodeVars, reserveVars, filterVars, mapVars, lifeVars, lockVars, submitVars, iterVars, countVars, raceVars, keyVars, sortVars, publisherVars, linkedVars>>

\* the variables an operation of one component leaves alone
nonFsmVars ==
    <<partVars, queueVars, nodeVars, reserveVars, filterVars, mapVars, lifeVars, lockVars, submitVars, iterVars, countVars, raceVars, keyVars, sortVars, publisherVars, linkedVars>>
nonPartVars ==
    <<fsmVars, queueVars, nodeVars, reserveVars, filterVars, mapVars, lifeVars, lockVars, submitVars, iterVars, countVars, raceVars, keyVars, sortVars, publisherVars, linkedVars>>
nonQueueVars ==
    <<fsmVars, partVars, nodeVars, reserveVars, filterVars, mapVars, lifeVars, lockVars, submitVars, iterVars, countVars, raceVars, keyVars, sortVars, publisherVars, linkedVars>>
nonNodeVars ==
    <<fsmVars, partVars, queueVars, reserveVars, filterVars, mapVars, lifeVars, lockVars, submitVars, iterVars, countVars, raceVars, keyVars, sortVars, publisherVars, linkedVars>>
nonReserveVars ==
    <<fsmVars, partVars, queueVars, nodeVars, filterVars, mapVars, lifeVars, lockVars, submitVars, iterVars, countVars, raceVars, keyVars, sortVars, publisherVars, linkedVars>>
nonFilterVars ==
    <<fsmVars, partVars, queueVars, nodeVars, reserveVars, mapVars, lifeVars, lockVars, submitVars, iterVars, countVars, raceVars, keyVars, sortVars, publisherVars, linkedVars>>
nonMapVars ==
    <<fsmVars, partVars, queueVars, nodeVars, reserveVars, filterVars, lifeVars, lockVars, submitVars, iterVars, countVars, raceVars, keyVars, sortVars, publisherVars, linkedVars>>
nonLifeVars ==
    <<fsmVars, partVars, queueVars, nodeVars, reserveVars, filterVars, mapVars, lockVars, submitVars, iterVars, countVars, raceVars, keyVars, sortVars, publisherVars, linkedVars>>
nonLockVars ==
    <<fsmVars, partVars, queueVars, nodeVars, reserveVars, filterVars, mapVars, lifeVars, submitVars, iterVars, countVars, raceVars, keyVars, sortVars, publisherVars, linkedVars>>
nonSubmitVars ==
    <<fsmVars, partVars, queueVars, nodeVars, reserveVars, filterVars, mapVars, lifeVars, lockVars, iterVars, countVars, raceVars, keyVars, sortVars, publisherVars, linkedVars>>
nonIterVars ==
    <<fsmVars, partVars, queueVars, nodeVars, reserveVars, filterVars, mapVars, lifeVars, lockVars, submitVars, countVars, raceVars, keyVars, sortVars, publisherVars, linkedVars>>
nonCountVars ==
    <<fsmVars, partVars, queueVars, nodeVars, reserveVars, filterVars, mapVars, lifeVars, lockVars, submitVars, iterVars, raceVars, keyVars, sortVars, publisherVars, linkedVars>>
nonRaceVars ==
    <<fsmVars, partVars, queueVars, nodeVars, reserveVars, filterVars, mapVars, lifeVars, lockVars, submitVars, iterVars, countVars, keyVars, sortVars, publisherVars, linkedVars>>
nonKeyVars ==
    <<fsmVars, partVars, queueVars, nodeVars, reserveVars, filterVars, mapVars, lifeVars, lockVars, submitVars, iterVars, countVars, raceVars, sortVars, publisherVars, linkedVars>>
nonSortVars ==
    <<fsmVars, partVars, queueVars, nodeVars, reserveVars, filterVars, mapVars, lifeVars, lockVars, submitVars, iterVars, countVars, raceVars, keyVars, publisherVars, linkedVars>>
nonPublisherVars ==
    <<fsmVars, partVars, queueVars, nodeVars, reserveVars, filterVars, mapVars, lifeVars, lockVars, submitVars, iterVars, countVars, raceVars, keyVars, sortVars, linkedVars>>
nonLinkedVars ==
    <<fsmVars, partVars, queueVars, nodeVars, reserveVars, filterVars, mapVars, lifeVars, lockVars, submitVars, iterVars, countVars, raceVars, keyVars, sortVars, publisherVars>>

(***************************************************************************)
(* Application state machine (objects/application_state.go)                *)
(***************************************************************************)
\* applicationState.String()
AppStates ==
    {"New", "Accepted", "Starting", "Running", "Waiting", "Rejected", "Completed", "killed", "Deleting"}

\* applicationEvent.String()
AppEvents ==
    {"RunApplication", "WaitApplication", "RejectApplication", "CompleteApplication",
     "KillApplication", "DeleteApplication"}

\* a variant of the event table in which a completed application can be killed
NewAppStateKillCompleted ==
    {[Name |-> "RejectApplication", Src |-> {"New"}, Dst |-> "Rejected"],
     [Name |-> "RunApplication", Src |-> {"New"}, Dst |-> "Accepted"],
     [Name |-> "RunApplication", Src |-> {"Accepted"}, Dst |-> "Starting"],
     [Name |-> "RunApplication", Src |-> {"Running", "Starting", "Waiting"}, Dst |-> "Running"],
     [Name |-> "CompleteApplication", Src |-> {"Running", "Starting", "Waiting"}, Dst |-> "Completed"],
     [Name |-> "WaitApplication", Src |-> {"Accepted", "Running", "Starting"}, Dst |-> "Waiting"],
     [Name |-> "KillApplication",
      Src |-> {"Accepted", "killed", "New", "Running", "Starting", "Waiting", "Completed"},
      Dst |-> "killed"],
     [Name |-> "DeleteApplication", Src |-> {"Completed"}, Dst |-> "Deleting"]}

\* the fsm.Events handed to fsm.NewFSM
NewAppState ==
    {[Name |-> "RejectApplication", Src |-> {"New"}, Dst |-> "Rejected"],
     [Name |-> "RunApplication", Src |-> {"New"}, Dst |-> "Accepted"],
     [Name |-> "RunApplication", Src |-> {"Accepted"}, Dst |-> "Starting"],
     [Name |-> "RunApplication", Src |-> {"Running", "Starting", "Waiting"}, Dst |-> "Running"],
     [Name |-> "CompleteApplication", Src |-> {"Running", "Starting", "Waiting"}, Dst |-> "Completed"],
     [Name |-> "WaitApplication", Src |-> {"Accepted", "Running", "Starting"}, Dst |-> "Waiting"],
     [Name |-> "KillApplication",
      Src |-> {"Accepted", "killed", "New", "Running", "Starting", "Waiting"},
      Dst |-> "killed"],
     [Name |-> "DeleteApplication", Src |-> {"Completed"}, Dst |-> "Deleting"]}

\* the transitions of the FSM: the descriptors of `event` that list `src`
Descriptors(event, src) == {d \in NewAppState : d.Name = event /\ src \in d.Src}

\* callbacks that do not arm the state timer on entering Starting
EnterSetsTimerNotStarting == {"Waiting", "Completed"}

\* fsm.Callbacks: the states whose enter_ callback calls SetStateTimer
EnterSetsTimer == {"Starting", "Waiting", "Completed"}

\* fsm.Callbacks: the states whose leave_ callback calls ClearStateTimer
LeaveClearsTimer == {"Starting", "Waiting"}

\* the state timer after the leave_<src> and enter_<dst> callbacks of a transition
TimerAfter(timer, src, dst) ==
    IF dst \in EnterSetsTimer THEN TRUE
    ELSE IF src \in LeaveClearsTimer THEN FALSE
    ELSE timer

\* FSM.Event(event, app): an event that no descriptor lists for the current state is
\* refused with an error, an event whose destination is the current state reports
\* "no transition" and runs no enter_/leave_ callback, any other event moves the state
\* and runs leave_<src> and enter_<dst>.
Event(a, event) ==
    LET src == appState[a]
        ds  == Descriptors(event, src)
    IN  IF ds = {}
        THEN /\ fired' = [app |-> a, event |-> event, src |-> src, err |-> "invalid event"]
             /\ UNCHANGED <<appState, stateTimer, wasStarting>>
        ELSE \E d \in ds :
               IF d.Dst = src
               THEN /\ fired' = [app |-> a, event |-> event, src |-> src, err |-> "no transition"]
                    /\ UNCHANGED <<appState, stateTimer, wasStarting>>
               ELSE /\ appState' = [appState EXCEPT ![a] = d.Dst]
                    /\ stateTimer' = [stateTimer EXCEPT ![a] = TimerAfter(stateTimer[a], src, d.Dst)]
                    /\ wasStarting' = [wasStarting EXCEPT ![a] = @ \/ d.Dst = "Starting"]
                    /\ fired' = [app |-> a, event |-> event, src |-> src, err |-> ""]

\* an event handed to the application's state machine by the scheduler
HandleApplicationEvent ==
    /\ \E a \in FsmApps, event \in AppEvents : Event(a, event)
    /\ UNCHANGED nonFsmVars

\* expiry of the state timer of one application: Run out of Starting, Complete out of
\* Waiting
TimeoutStateTimerApp(a) ==
    /\ stateTimer[a]
    /\ appState[a] \in {"Starting", "Waiting"}
    /\ Event(a, IF appState[a] = "Starting" THEN "RunApplication" ELSE "CompleteApplication")
    /\ UNCHANGED nonFsmVars

\* expiry of the state timer: Run out of Starting, Complete out of Waiting
TimeoutStateTimer == \E a \in FsmApps : TimeoutStateTimerApp(a)

NoEvent == [app |-> 0, event |-> "", src |-> "", err |-> ""]

FsmInit ==
    /\ appState = [a \in FsmApps |-> "New"]
    /\ stateTimer = [a \in FsmApps |-> FALSE]
    /\ wasStarting = [a \in FsmApps |-> FALSE]
    /\ fired = NoEvent

FsmNext == HandleApplicationEvent \/ TimeoutStateTimer

(***************************************************************************)
(* Resource algebra (common/resources)                                     *)
(***************************************************************************)
ResTypes == {"memory", "vcores"}

Zero == [t \in ResTypes |-> 0]

Add(left, right) == [t \in ResTypes |-> left[t] + right[t]]

Sub(left, right) == [t \in ResTypes |-> left[t] - right[t]]

Multiply(base, ratio) == [t \in ResTypes |-> base[t] * ratio]

IsZero(res) == \A t \in ResTypes : res[t] = 0

\* every quantity of `smaller` fits in the same quantity of `larger`
FitIn(larger, smaller) == \A t \in ResTypes : larger[t] >= smaller[t]

StrictlyGreaterThanZero(res) ==
    /\ \E t \in ResTypes : res[t] > 0
    /\ \A t \in ResTypes : res[t] >= 0

\* the difference with every quantity that would go negative clamped at zero
SubErrorNegative(left, right) ==
    [t \in ResTypes |-> IF left[t] - right[t] < 0 THEN 0 ELSE left[t] - right[t]]

(***************************************************************************)
(* Partition scheduling context (scheduler/scheduling_partition.go) with   *)
(* its applications, nodes and queues                                      *)
(***************************************************************************)
Apps == 1..NumApps
Nodes == 1..NumNodes
AskKeys == 1..NumAsks
Leaves == 1..NumLeaves
RootQueue == 0
Queues == {RootQueue} \cup Leaves

\* the resource one allocation of the ask with this allocation key requests
AskResource(k) == [t \in ResTypes |-> IF t = "memory" THEN k ELSE 1]

\* the available resource the cache reports for every node
NodeAvailable == [t \in ResTypes |-> IF t = "memory" THEN NumAsks + 1 ELSE 2]

NoAlloc == [result |-> "none", app |-> 0, ask |-> 0, nodeID |-> 0, reservedNodeID |-> 0]
NoRelease == [app |-> 0, asks |-> 0]
NoRequests == [k \in {} |-> 0]

ProposalKeys == Apps \X AskKeys \X Nodes

\* the number of allocations in flight: held by the driver or handed to the cache
RECURSIVE SumOver(_, _)
SumOver(f, S) == IF S = {} THEN 0 ELSE LET x == CHOOSE y \in S : TRUE IN f[x] + SumOver(f, S \ {x})

InFlight == SumOver(proposals, ProposalKeys) + (IF alloc.result = "none" THEN 0 ELSE 1)

\* map access with Go's zero value for a missing key
Count(m, key) == IF key \in DOMAIN m THEN m[key] ELSE 0

\* m[key] = value, adding the key when missing
MapPut(m, key, value) == [x \in DOMAIN m \cup {key} |-> IF x = key THEN value ELSE m[x]]

\* delete(m, key)
MapDelete(m, key) == [x \in DOMAIN m \ {key} |-> m[x]]

\* what `last` records: the operation, what it returned and the confirm flag it was given
Op(name, ret) == [op |-> name, ret |-> ret, confirm |-> FALSE]

\* `last` after an operation whose return value is not recorded
NoReturn == Op("", "")

PartInit ==
    /\ applications = {}
    /\ appQueue = [a \in Apps |-> RootQueue]
    /\ appAllocating = [a \in Apps |-> Zero]
    /\ appPending = [a \in Apps |-> Zero]
    /\ requests = [a \in Apps |-> NoRequests]
    /\ appReservations = [a \in Apps |-> {}]
    /\ nodes = {}
    /\ nodeAllocating = [n \in Nodes |-> Zero]
    /\ nodeReservations = [n \in Nodes |-> {}]
    /\ reservedApps = NoRequests
    /\ queueAllocating = [q \in Queues |-> Zero]
    /\ alloc = NoAlloc
    /\ proposals = [p \in ProposalKeys |-> 0]
    /\ released = NoRelease
    /\ last = NoReturn

\* ---- scheduling node (scheduler/scheduling_node.go) ----

\* newSchedulingNode: nothing allocating, no reservations
NewNodeAllocating == Zero

\* schedulingNode.allocateResource(res, false): the new allocating resource must fit in
\* the available resource of the cache node
AllocateResourceFits(n, res) == FitIn(NodeAvailable, Add(res, nodeAllocating[n]))

\* schedulingNode.decAllocatingResource: the allocating resource after the decrease
DecAllocatingResource(allocating, delta) == SubErrorNegative(allocating, delta)

\* schedulingNode.isReserved
IsReserved(n) == nodeReservations[n] # {}

\* nodeInfo.FitInNode: the ask fits in the total capacity of the node
FitInNode(res) == FitIn(NodeAvailable, res)

\* schedulingNode.reserve succeeds: the node holds no reservation and the ask fits
NodeCanReserve(n, k) == ~IsReserved(n) /\ FitInNode(AskResource(k))

\* psc.getSchedulingNodes(excludeReserved): every node of the cache is schedulable here
GetSchedulingNodes(excludeReserved) ==
    {n \in nodes : ~(excludeReserved /\ IsReserved(n))}

\* ---- scheduling queue ----

\* the queues from q up to the root
QueuePath(q) == {q, RootQueue}

\* queue.incAllocatingResource, recursive to the root
IncQueueAllocating(qa, q, delta) ==
    [x \in Queues |-> IF x \in QueuePath(q) THEN Add(qa[x], delta) ELSE qa[x]]

\* queue.decAllocatingResource, recursive to the root, clamped at zero
DecQueueAllocating(qa, q, delta) ==
    [x \in Queues |-> IF x \in QueuePath(q) THEN SubErrorNegative(qa[x], delta) ELSE qa[x]]

\* ---- scheduling application ----

\* app.isReservedOnNode(nodeID)
IsReservedOnNode(a, n) == \E r \in appReservations[a] : r[2] = n

\* a repeat update that leaves the pending resource of the application alone
UpdateAskRepeatKeepPending(pending, k, delta) == pending

\* app.updateAskRepeat(allocKey, delta): the pending resource of the application after
\* the pending repeat of the ask with this key changed by delta
UpdateAskRepeat(pending, k, delta) == Add(pending, Multiply(AskResource(k), delta))

\* app.isAskReserved(allocKey): the ask is in a reservation of the application
IsAskReserved(a, k) == \E r \in appReservations[a] : r[1] = k

\* the pending resource the asks of a ledger add up to
RECURSIVE LedgerSum(_, _)
LedgerSum(reqs, keys) ==
    IF keys = {} THEN Zero
    ELSE LET k == CHOOSE x \in keys : TRUE
         IN  Add(Multiply(AskResource(k), reqs[k]), LedgerSum(reqs, keys \ {k}))

\* queue.GetPendingResource of the root: the pending resources of the applications of
\* the partition added up
RECURSIVE PendingResource(_)
PendingResource(as) ==
    IF as = {} THEN Zero
    ELSE LET a == CHOOSE x \in as : TRUE
         IN  Add(appPending[a], PendingResource(as \ {a}))

\* ---- partition operations driven by RM events ----

\* psc.addSchedulingApplication: an existing ID is refused, a new application is put
\* under its leaf queue and into the application map
AddSchedulingApplication ==
    /\ UNCHANGED nonPartVars
    /\ \E a \in Apps, q \in Leaves :
           /\ released = NoRelease
           /\ IF a \in applications
              THEN /\ last' = NoReturn
                   /\ UNCHANGED <<applications, appQueue>>
              ELSE /\ applications' = applications \cup {a}
                   /\ appQueue' = [appQueue EXCEPT ![a] = q]
                   /\ last' = NoReturn
           /\ UNCHANGED <<appAllocating, appPending, requests, appReservations, nodes,
                          nodeAllocating, nodeReservations, reservedApps, queueAllocating, alloc, proposals, released>>

\* psc.removeSchedulingApplication: the application leaves the application map and
\* reservedApps, all its asks and with them its reservations and pending resources are
\* removed, and it is taken out of its queue
RemoveSchedulingApplication ==
    /\ UNCHANGED nonPartVars
    /\ \E a \in Apps :
           /\ released = NoRelease
           /\ IF a \notin applications
              THEN /\ last' = NoReturn
                   /\ UNCHANGED <<applications, appQueue, appAllocating, appPending, requests,
                                  appReservations, nodeReservations, reservedApps>>
              ELSE /\ applications' = applications \ {a}
                   /\ reservedApps' = MapDelete(reservedApps, a)
                   /\ requests' = [requests EXCEPT ![a] = NoRequests]
                   /\ appPending' = [appPending EXCEPT ![a] = Zero]
                   /\ appReservations' = [appReservations EXCEPT ![a] = {}]
                   /\ nodeReservations' =
                          [n \in Nodes |-> {r \in nodeReservations[n] : r[1] # a}]
                   /\ appAllocating' = [appAllocating EXCEPT ![a] = Zero]
                   /\ appQueue' = [appQueue EXCEPT ![a] = RootQueue]
                   /\ last' = NoReturn
           /\ UNCHANGED <<nodes, nodeAllocating, queueAllocating, alloc, proposals, released>>

\* psc.addSchedulingNode: the node map entry is set to a new scheduling node, also when
\* the ID was registered already
AddSchedulingNode ==
    /\ UNCHANGED nonPartVars
    /\ \E n \in Nodes :
           /\ released = NoRelease
           /\ nodes' = nodes \cup {n}
           /\ nodeAllocating' = [nodeAllocating EXCEPT ![n] = NewNodeAllocating]
           /\ nodeReservations' = [nodeReservations EXCEPT ![n] = {}]
           /\ last' = NoReturn
           /\ UNCHANGED <<applications, appQueue, appAllocating, appPending, requests,
                          appReservations, reservedApps, queueAllocating,
                          alloc, proposals, released>>

\* psc.unReserveCount(appID, asks) applied to the reservedApps map m
UnReserveCount(m, a, asks) ==
    IF a \in DOMAIN m
    THEN IF m[a] = asks THEN MapDelete(m, a) ELSE MapPut(m, a, m[a] - asks)
    ELSE m

\* no count of reservedApps has drifted below the bound of the model
DriftBounded == \A a \in DOMAIN reservedApps : reservedApps[a] >= -MaxDrift

\* unReserveCount(appID, 1) once for every appID of the list node.unReserveApps returns
RECURSIVE UnReserveCountAll(_, _)
UnReserveCountAll(m, rs) ==
    IF rs = {} THEN m
    ELSE LET r == CHOOSE x \in rs : TRUE
         IN  UnReserveCountAll(UnReserveCount(m, r[1], 1), rs \ {r})

\* psc.removeSchedulingNode: the node leaves the node map, node.unReserveApps removes
\* every reservation of the node from its application, and reservedApps is counted down
\* once per removed reservation
RemoveSchedulingNode ==
    /\ UNCHANGED nonPartVars
    /\ \E n \in Nodes :
           /\ released = NoRelease
           /\ DriftBounded
           /\ IF n \notin nodes
              THEN /\ last' = NoReturn
                   /\ UNCHANGED <<nodes, nodeAllocating, nodeReservations, appReservations,
                                  reservedApps>>
              ELSE /\ nodes' = nodes \ {n}
                   /\ appReservations' =
                          [a \in Apps |->
                              {r \in appReservations[a] :
                                  ~(r[2] = n /\ <<a, r[1]>> \in nodeReservations[n])}]
                   /\ reservedApps' = UnReserveCountAll(reservedApps, nodeReservations[n])
                   /\ nodeReservations' = [nodeReservations EXCEPT ![n] = {}]
                   /\ nodeAllocating' = [nodeAllocating EXCEPT ![n] = Zero]
                   /\ last' = NoReturn
           /\ UNCHANGED <<applications, appQueue, appAllocating, appPending, requests,
                          queueAllocating, alloc, proposals, released>>

\* app.addAllocationAsk: the ask is inserted or replaces the ask with the same key, and
\* the pending resource changes by the difference
AddAllocationAsk ==
    /\ UNCHANGED nonPartVars
    /\ \E a \in applications, k \in AskKeys, repeat \in 1..MaxRepeat :
           /\ released = NoRelease
           /\ LET old == Multiply(AskResource(k), Count(requests[a], k))
                  delta == Sub(Multiply(AskResource(k), repeat), old)
              IN  /\ requests' = [requests EXCEPT ![a] = MapPut(requests[a], k, repeat)]
                  /\ appPending' = [appPending EXCEPT ![a] = Add(appPending[a], delta)]
           /\ last' = NoReturn
           /\ UNCHANGED <<applications, appQueue, appAllocating, appReservations, nodes,
                          nodeAllocating, nodeReservations, reservedApps, queueAllocating, alloc, proposals, released>>

\* app.removeAllocationAsk(key) as called for an RM release: the ask and its pending
\* resource are removed, its reservations are released on the application and on their
\* nodes, and the number of released reservations is left for unReserveUpdate
RemoveAllocationAsk ==
    /\ UNCHANGED nonPartVars
    /\ \E a \in applications :
           \E k \in DOMAIN requests[a] :
               /\ released = NoRelease
               /\ LET gone == {r \in appReservations[a] : r[1] = k}
                  IN  /\ appReservations' = [appReservations EXCEPT ![a] = @ \ gone]
                      /\ nodeReservations' =
                             [n \in Nodes |->
                                 IF <<k, n>> \in gone
                                 THEN nodeReservations[n] \ {<<a, k>>}
                                 ELSE nodeReservations[n]]
                      /\ released' = IF gone = {} THEN NoRelease
                                     ELSE [app |-> a, asks |-> Cardinality(gone)]
               /\ appPending' =
                      [appPending EXCEPT
                          ![a] = Sub(@, Multiply(AskResource(k), requests[a][k]))]
               /\ requests' = [requests EXCEPT ![a] = MapDelete(requests[a], k)]
               /\ last' = NoReturn
               /\ UNCHANGED <<applications, appQueue, appAllocating, nodes, nodeAllocating,
                              reservedApps, queueAllocating, alloc,
                              proposals>>

\* psc.unReserveUpdate(appID, asks): the locked counter update that follows an ask removal
UnReserveUpdate ==
    /\ UNCHANGED nonPartVars
    /\ released # NoRelease
    /\ DriftBounded
    /\ reservedApps' = UnReserveCount(reservedApps, released.app, released.asks)
    /\ released' = NoRelease
    /\ last' = NoReturn
    /\ UNCHANGED <<applications, appQueue, appAllocating, appPending, requests,
                   appReservations, nodes, nodeAllocating, nodeReservations,
                   queueAllocating, alloc, proposals>>

\* ---- the scheduling driver: tryAllocate / tryReservedAllocate, then allocate ----

\* the ledger and counter updates of an allocation of ask k of application a on node n:
\* node.allocateResource, then the allocating resource of application and queue grows
\* and the ask gives up one pending repeat
AllocateAsk(a, k, n) ==
    /\ queueAllocating[RootQueue]["memory"] + AskResource(k)["memory"] <= MaxAllocating
    /\ nodeAllocating' = [nodeAllocating EXCEPT ![n] = Add(AskResource(k), @)]
    /\ appAllocating' = [appAllocating EXCEPT ![a] = Add(@, AskResource(k))]
    /\ queueAllocating' = IncQueueAllocating(queueAllocating, appQueue[a], AskResource(k))
    /\ requests' = [requests EXCEPT ![a] = MapPut(requests[a], k, requests[a][k] - 1)]
    /\ appPending' = [appPending EXCEPT ![a] = UpdateAskRepeat(@, k, -1)]

\* psc.tryAllocate, when the root queue has pending resources: a pending ask of a
\* registered application is placed on a schedulable node without reservation, or, when
\* no node took it, a node it fits on is picked for a reservation
TryAllocate ==
    /\ UNCHANGED nonPartVars
    /\ alloc = NoAlloc
    /\ StrictlyGreaterThanZero(PendingResource(applications))
    /\ InFlight < MaxInFlight
    /\ \E a \in applications :
        \E k \in DOMAIN requests[a] :
            /\ requests[a][k] > 0
            /\ \E n \in GetSchedulingNodes(TRUE) :
                 \/ /\ AllocateResourceFits(n, AskResource(k))
                    /\ AllocateAsk(a, k, n)
                    /\ alloc' = [result |-> "allocated", app |-> a, ask |-> k,
                                 nodeID |-> n, reservedNodeID |-> 0]
                 \/ /\ FitInNode(AskResource(k))
                    /\ ~IsAskReserved(a, k)
                    /\ alloc' = [result |-> "reserved", app |-> a, ask |-> k,
                                 nodeID |-> n, reservedNodeID |-> 0]
                    /\ UNCHANGED <<nodeAllocating, appAllocating, queueAllocating,
                                   requests, appPending>>
    /\ last' = NoReturn
    /\ UNCHANGED <<applications, appQueue, appReservations, nodes, nodeReservations,
                   reservedApps, proposals, released>>

\* psc.tryReservedAllocate: for a reservation of a registered application, the ask is
\* unreserved when it has no pending repeat left, allocated on the reserved node when it
\* fits there, or allocated on another schedulable node
TryReservedAllocate ==
    /\ UNCHANGED nonPartVars
    /\ alloc = NoAlloc
    /\ InFlight < MaxInFlight
    /\ DOMAIN reservedApps # {}
    /\ \E a \in applications :
        \E r \in appReservations[a] :
            LET k == r[1]
                n == r[2]
            IN  \/ /\ Count(requests[a], k) = 0
                   /\ alloc' = [result |-> "unreserved", app |-> a, ask |-> k,
                                nodeID |-> n, reservedNodeID |-> 0]
                   /\ UNCHANGED <<nodeAllocating, appAllocating, queueAllocating,
                                  requests, appPending>>
                \/ /\ Count(requests[a], k) > 0
                   /\ n \in nodes
                   /\ AllocateResourceFits(n, AskResource(k))
                   /\ AllocateAsk(a, k, n)
                   /\ alloc' = [result |-> "allocatedReserved", app |-> a, ask |-> k,
                                nodeID |-> n, reservedNodeID |-> 0]
                \/ /\ Count(requests[a], k) > 0
                   /\ \E m \in GetSchedulingNodes(TRUE) \ {n} :
                        /\ AllocateResourceFits(m, AskResource(k))
                        /\ AllocateAsk(a, k, m)
                        /\ alloc' = [result |-> "allocatedReserved", app |-> a, ask |-> k,
                                     nodeID |-> m, reservedNodeID |-> n]
    /\ last' = NoReturn
    /\ UNCHANGED <<applications, appQueue, appReservations, nodes, nodeReservations,
                   reservedApps, proposals, released>>

\* the node ID allocate looks up: the reserved node when one was passed in
AllocateNodeID(al) == IF al.reservedNodeID = 0 THEN al.nodeID ELSE al.reservedNodeID

\* psc.reserve(app, node, ask) holding the partition lock
Reserve(a, n, k) ==
    IF IsReservedOnNode(a, n) \/ ~NodeCanReserve(n, k)
    THEN UNCHANGED <<appReservations, nodeReservations, reservedApps>>
    ELSE /\ nodeReservations' = [nodeReservations EXCEPT ![n] = @ \cup {<<a, k>>}]
         /\ appReservations' = [appReservations EXCEPT ![a] = @ \cup {<<k, n>>}]
         /\ reservedApps' = MapPut(reservedApps, a, Count(reservedApps, a) + 1)

\* psc.unReserve(app, node, ask) holding the partition lock
UnReserve(a, n, k) ==
    IF Count(reservedApps, a) = 0
    THEN UNCHANGED <<appReservations, nodeReservations, reservedApps>>
    ELSE /\ nodeReservations' = [nodeReservations EXCEPT ![n] = @ \ {<<a, k>>}]
         /\ appReservations' = [appReservations EXCEPT ![a] = @ \ {<<k, n>>}]
         /\ reservedApps' = UnReserveCount(reservedApps, a, 1)

\* the value psc.allocate returns for the allocation al
AllocateReturns(al) ==
    /\ al.app \in applications
    /\ AllocateNodeID(al) \in nodes
    /\ al.result \notin {"reserved", "unreserved"}

\* psc.allocate(alloc): the driver hands the allocation it holds to the partition and,
\* when allocate returns true, sends the proposal to the cache
Allocate ==
    /\ UNCHANGED nonPartVars
    /\ alloc # NoAlloc
    /\ DriftBounded
    /\ LET a == alloc.app
           k == alloc.ask
           n == AllocateNodeID(alloc)
       IN  /\ IF a \notin applications \/ n \notin nodes
              THEN UNCHANGED <<appReservations, nodeReservations, reservedApps>>
              ELSE IF alloc.result = "reserved"
              THEN Reserve(a, n, k)
              ELSE IF alloc.result \in {"unreserved", "allocatedReserved"}
              THEN UnReserve(a, n, k)
              ELSE UNCHANGED <<appReservations, nodeReservations, reservedApps>>
           /\ proposals' =
                  IF AllocateReturns(alloc)
                  THEN [proposals EXCEPT ![<<a, k, alloc.nodeID>>] = @ + 1]
                  ELSE proposals
           /\ last' = Op("allocate", AllocateReturns(alloc))
    /\ alloc' = NoAlloc
    /\ UNCHANGED <<applications, appQueue, appAllocating, appPending, requests, nodes,
                   nodeAllocating, queueAllocating, released>>

\* ---- the cache answers a proposal ----

\* a confirmation that does not look for the ask: the only errors are a removed
\* application and a removed node
ConfirmErrorNoAskCheck(a, k, n, confirm) ==
    IF a \notin applications THEN "application was removed"
    ELSE IF n \notin nodes THEN "node was removed"
    ELSE ""

\* the error psc.confirmAllocation returns for the proposal of ask k of application a on
\* node n, "" for nil
ConfirmError(a, k, n, confirm) ==
    IF a \notin applications THEN "application was removed"
    ELSE IF n \notin nodes THEN "node was removed"
    ELSE IF ~confirm /\ k \notin DOMAIN requests[a] THEN "failed to locate ask"
    ELSE IF confirm /\ k \notin DOMAIN requests[a] THEN "ask was removed"
    ELSE ""

\* psc.confirmAllocation(allocProposal, confirm)
ConfirmAllocation ==
    /\ UNCHANGED nonPartVars
    /\ \E p \in ProposalKeys, confirm \in BOOLEAN :
           LET a == p[1]
               k == p[2]
               n == p[3]
               delta == AskResource(k)
           IN  /\ proposals[p] > 0
               /\ proposals' = [proposals EXCEPT ![p] = @ - 1]
               /\ IF a \notin applications \/ n \notin nodes
                  THEN UNCHANGED <<appAllocating, queueAllocating, nodeAllocating, requests,
                                   appPending>>
                  ELSE /\ IF ~IsZero(delta)
                          THEN /\ appAllocating' =
                                      [appAllocating EXCEPT ![a] = SubErrorNegative(@, delta)]
                               /\ queueAllocating' =
                                      DecQueueAllocating(queueAllocating, appQueue[a], delta)
                               /\ nodeAllocating' =
                                      [nodeAllocating EXCEPT
                                          ![n] = DecAllocatingResource(@, delta)]
                          ELSE UNCHANGED <<appAllocating, queueAllocating, nodeAllocating>>
                       /\ IF ~confirm /\ k \in DOMAIN requests[a]
                          THEN /\ requests' =
                                      [requests EXCEPT
                                          ![a] = MapPut(requests[a], k, requests[a][k] + 1)]
                               /\ appPending' = [appPending EXCEPT ![a] = UpdateAskRepeat(@, k, 1)]
                          ELSE UNCHANGED <<requests, appPending>>
               /\ last' = [op |-> "confirmAllocation", ret |-> ConfirmError(a, k, n, confirm),
                           confirm |-> confirm]
               /\ UNCHANGED <<applications, appQueue, appReservations, nodes, nodeReservations,
                              reservedApps, alloc, released>>

PartNext ==
    \/ AddSchedulingApplication
    \/ RemoveSchedulingApplication
    \/ AddSchedulingNode
    \/ RemoveSchedulingNode
    \/ AddAllocationAsk
    \/ RemoveAllocationAsk
    \/ UnReserveUpdate
    \/ TryAllocate
    \/ TryReservedAllocate
    \/ Allocate
    \/ ConfirmAllocation

(***************************************************************************)
(* Queue allocation accounting (cache/queue_info.go)                       *)
(***************************************************************************)
\* the largest quantity the root queue may have allocated
MaxQuota == 3

\* the queue tree: a parent queue under the root with two leaves, and a leaf under the root
QueueNames == {"root", "root.parent", "root.parent.leaf1", "root.parent.leaf2", "root.leaf"}

\* QueueInfo.Parent
Parent(q) ==
    IF q \in {"root.parent.leaf1", "root.parent.leaf2"} THEN "root.parent" ELSE "root"

\* QueueInfo.isLeaf
IsLeaf(q) == q \in {"root.parent.leaf1", "root.parent.leaf2", "root.leaf"}

\* QueueInfo.maxResource
MaxResource(q) ==
    IF q = "root" THEN [t \in ResTypes |-> MaxQuota] ELSE [t \in ResTypes |-> MaxQuota - 1]

\* the resources an allocation or a release moves
Allocations == {res \in [ResTypes -> 0..1] : ~IsZero(res)}

\* an increment that never looks at the maximum of a queue
RECURSIVE IncAllocatedResourceNoMax(_, _, _)
IncAllocatedResourceNoMax(qa, q, res) ==
    IF q = "root"
    THEN [err |-> "", allocated |-> [qa EXCEPT ![q] = Add(qa[q], res)]]
    ELSE [err |-> "",
          allocated |-> [IncAllocatedResourceNoMax(qa, Parent(q), res).allocated
                            EXCEPT ![q] = Add(qa[q], res)]]

\* an increment that changes the queue it is called on and none of its ancestors
IncAllocatedResourceLeafOnly(qa, q, res) ==
    LET newAllocation == Add(qa[q], res)
    IN  IF ~FitIn(MaxResource(q), newAllocation)
        THEN [err |-> "quota-exceeded", allocated |-> qa]
        ELSE [err |-> "", allocated |-> [qa EXCEPT ![q] = newAllocation]]

\* QueueInfo.IncAllocatedResource(alloc, false) on the queue map qa: the new allocation
\* must fit in the maximum of this queue, then the parent must take the increment, and
\* only then this queue is updated
RECURSIVE IncAllocatedResource(_, _, _)
IncAllocatedResource(qa, q, res) ==
    LET newAllocation == Add(qa[q], res)
    IN  IF ~FitIn(MaxResource(q), newAllocation)
        THEN [err |-> "quota-exceeded", allocated |-> qa]
        ELSE IF q = "root"
        THEN [err |-> "", allocated |-> [qa EXCEPT ![q] = newAllocation]]
        ELSE LET up == IncAllocatedResource(qa, Parent(q), res)
             IN  IF up.err # ""
                 THEN [err |-> up.err, allocated |-> qa]
                 ELSE [err |-> "", allocated |-> [up.allocated EXCEPT ![q] = newAllocation]]

\* a decrement that looks at the allocated resource of the queue it is called on only and
\* clamps the ancestors at zero
DecAllocatedResourceOwnLevel(qa, q, res) ==
    IF ~FitIn(qa[q], res)
    THEN [err |-> "released more than allocated", allocated |-> qa]
    ELSE [err |-> "",
          allocated |-> [x \in DOMAIN qa |->
                            IF x \in {q, Parent(q), "root"}
                            THEN SubErrorNegative(qa[x], res) ELSE qa[x]]]

\* QueueInfo.decAllocatedResource(alloc) on the queue map qa: the release must fit in
\* what this queue has allocated, then the parent must take the decrement, and only then
\* this queue is updated
RECURSIVE DecAllocatedResource(_, _, _)
DecAllocatedResource(qa, q, res) ==
    IF ~FitIn(qa[q], res)
    THEN [err |-> "released more than allocated", allocated |-> qa]
    ELSE IF q = "root"
    THEN [err |-> "", allocated |-> [qa EXCEPT ![q] = Sub(qa[q], res)]]
    ELSE LET up == DecAllocatedResource(qa, Parent(q), res)
         IN  IF up.err # ""
             THEN [err |-> up.err, allocated |-> qa]
             ELSE [err |-> "", allocated |-> [up.allocated EXCEPT ![q] = Sub(qa[q], res)]]

\* qLast before any operation
NoQueueOp ==
    [op |-> "", queue |-> "", res |-> Zero, err |-> "", undoes |-> FALSE, rootBefore |-> Zero]

QueueInit ==
    /\ allocatedResource = [q \in QueueNames |-> Zero]
    /\ qLast = NoQueueOp

\* an allocation is added to a leaf queue
IncAllocatedAtLeaf ==
    /\ UNCHANGED nonQueueVars
    /\ \E q \in {x \in QueueNames : IsLeaf(x)}, res \in Allocations :
           LET r == IncAllocatedResource(allocatedResource, q, res)
           IN  /\ allocatedResource' = r.allocated
               /\ qLast' = [op |-> "inc", queue |-> q, res |-> res, err |-> r.err,
                            undoes |-> FALSE, rootBefore |-> allocatedResource["root"]]

\* an allocation is released from a leaf queue; qLast notes whether the release takes
\* back the increment made just before it
DecAllocatedAtLeaf ==
    /\ UNCHANGED nonQueueVars
    /\ \E q \in {x \in QueueNames : IsLeaf(x)}, res \in Allocations :
           LET r == DecAllocatedResource(allocatedResource, q, res)
               undoes == /\ qLast.op = "inc"
                         /\ qLast.err = ""
                         /\ qLast.queue = q
                         /\ qLast.res = res
           IN  /\ allocatedResource' = r.allocated
               /\ qLast' = [op |-> "dec", queue |-> q, res |-> res, err |-> r.err,
                            undoes |-> undoes,
                            rootBefore |-> IF undoes THEN qLast.rootBefore ELSE Zero]

QueueNext == IncAllocatedAtLeaf \/ DecAllocatedAtLeaf

\* the queues of one branch, on which allocations are also added and released directly
BranchQueues == {"root", "root.parent", "root.parent.leaf1"}

\* IncAllocatedResource(alloc, false) called on a queue of the branch
IncAllocatedAtQueue ==
    /\ UNCHANGED nonQueueVars
    /\ \E q \in BranchQueues, res \in Allocations :
           LET r == IncAllocatedResource(allocatedResource, q, res)
           IN  /\ allocatedResource' = r.allocated
               /\ qLast' = [op |-> "inc", queue |-> q, res |-> res, err |-> r.err,
                            undoes |-> FALSE, rootBefore |-> allocatedResource["root"]]

\* decAllocatedResource(alloc) called on a queue of the branch
DecAllocatedAtQueue ==
    /\ UNCHANGED nonQueueVars
    /\ \E q \in BranchQueues, res \in Allocations :
           LET r == DecAllocatedResource(allocatedResource, q, res)
           IN  /\ allocatedResource' = r.allocated
               /\ qLast' = [op |-> "dec", queue |-> q, res |-> res, err |-> r.err,
                            undoes |-> FALSE, rootBefore |-> allocatedResource["root"]]

BranchNext == IncAllocatedAtQueue \/ DecAllocatedAtQueue

(***************************************************************************)
(* Scheduling node ledger (scheduler/scheduling_node.go): one scheduling   *)
(* node and the cache node behind it                                       *)
(***************************************************************************)
\* the largest quantity incAllocatingResource may raise the allocating resource to
MaxNodeAllocating == 2

\* the largest quantity of the preempting resource
MaxNodePreempting == 1

\* the result of an allocation attempt that books the resource whether it fits or not
AllocateResourceBooksAlways(available, allocating, preempting, res, preemptionPhase) ==
    LET newAllocating == Add(res, allocating)
        usable == IF preemptionPhase THEN Add(available, preempting) ELSE available
    IN  [ok |-> FitIn(usable, newAllocating), allocating |-> newAllocating]

\* schedulingNode.allocateResource(res, preemptionPhase): the new allocating resource must
\* fit in the available resource of the cache node, with the preempting resource added in
\* the preemption phase; only then the allocating resource is updated
AllocateResource(available, allocating, preempting, res, preemptionPhase) ==
    LET newAllocating == Add(res, allocating)
        usable == IF preemptionPhase THEN Add(available, preempting) ELSE available
    IN  IF FitIn(usable, newAllocating)
        THEN [ok |-> TRUE, allocating |-> newAllocating]
        ELSE [ok |-> FALSE, allocating |-> allocating]

\* snLast after an operation that returns nothing
NoNodeOp == [op |-> "", ok |-> TRUE, res |-> Zero]

\* newSchedulingNode on a cache node without allocations
NodeInit ==
    /\ nodeInfoAvailable = NodeAvailable
    /\ snAllocating = Zero
    /\ snPreempting = Zero
    /\ cachedAvailable = Zero
    /\ cachedAvailableUpdateNeeded = TRUE
    /\ snLast = NoNodeOp

\* schedulingNode.getAvailableResource
NodeGetAvailableResource ==
    /\ UNCHANGED nonNodeVars
    /\ IF cachedAvailableUpdateNeeded
       THEN /\ cachedAvailable' = Sub(nodeInfoAvailable, snAllocating)
            /\ cachedAvailableUpdateNeeded' = FALSE
       ELSE UNCHANGED <<cachedAvailable, cachedAvailableUpdateNeeded>>
    /\ snLast' = [op |-> "getAvailableResource", ok |-> TRUE, res |-> cachedAvailable']
    /\ UNCHANGED <<nodeInfoAvailable, snAllocating, snPreempting>>

\* schedulingNode.incAllocatingResource(delta)
NodeIncAllocatingResource ==
    /\ UNCHANGED nonNodeVars
    /\ \E delta \in Allocations :
           /\ FitIn([t \in ResTypes |-> MaxNodeAllocating], Add(snAllocating, delta))
           /\ snAllocating' = Add(snAllocating, delta)
    /\ cachedAvailableUpdateNeeded' = TRUE
    /\ snLast' = NoNodeOp
    /\ UNCHANGED <<nodeInfoAvailable, snPreempting, cachedAvailable>>

\* schedulingNode.decAllocatingResource(delta)
NodeDecAllocatingResource ==
    /\ UNCHANGED nonNodeVars
    /\ \E delta \in Allocations :
           snAllocating' = DecAllocatingResource(snAllocating, delta)
    /\ cachedAvailableUpdateNeeded' = TRUE
    /\ snLast' = NoNodeOp
    /\ UNCHANGED <<nodeInfoAvailable, snPreempting, cachedAvailable>>

\* schedulingNode.incPreemptingResource(preempting)
NodeIncPreemptingResource ==
    /\ UNCHANGED nonNodeVars
    /\ \E delta \in Allocations :
           /\ FitIn([t \in ResTypes |-> MaxNodePreempting], Add(snPreempting, delta))
           /\ snPreempting' = Add(snPreempting, delta)
    /\ snLast' = NoNodeOp
    /\ UNCHANGED <<nodeInfoAvailable, snAllocating, cachedAvailable,
                   cachedAvailableUpdateNeeded>>

\* schedulingNode.decPreemptingResource(delta)
NodeDecPreemptingResource ==
    /\ UNCHANGED nonNodeVars
    /\ \E delta \in Allocations :
           snPreempting' = SubErrorNegative(snPreempting, delta)
    /\ snLast' = NoNodeOp
    /\ UNCHANGED <<nodeInfoAvailable, snAllocating, cachedAvailable,
                   cachedAvailableUpdateNeeded>>

\* schedulingNode.allocateResource(res, preemptionPhase)
NodeAllocateResource ==
    /\ UNCHANGED nonNodeVars
    /\ \E res \in Allocations, preemptionPhase \in BOOLEAN :
           LET r == AllocateResource(nodeInfoAvailable, snAllocating, snPreempting, res,
                                     preemptionPhase)
           IN  /\ snAllocating' = r.allocating
               /\ cachedAvailableUpdateNeeded' =
                      IF r.ok THEN TRUE ELSE cachedAvailableUpdateNeeded
               /\ snLast' = [op |-> "allocateResource", ok |-> r.ok, res |-> res]
    /\ UNCHANGED <<nodeInfoAvailable, snPreempting, cachedAvailable>>

\* the cache confirms an allocation on the cache node: nodeInfo.AddAllocation takes the
\* resource out of the available resource of the cache node
CacheNodeAddAllocation ==
    /\ UNCHANGED nonNodeVars
    /\ \E res \in Allocations :
           /\ FitIn(nodeInfoAvailable, res)
           /\ nodeInfoAvailable' = Sub(nodeInfoAvailable, res)
    /\ snLast' = NoNodeOp
    /\ UNCHANGED <<snAllocating, snPreempting, cachedAvailable, cachedAvailableUpdateNeeded>>

\* the cache releases an allocation of the cache node: nodeInfo.RemoveAllocation gives the
\* resource back to the available resource of the cache node
CacheNodeRemoveAllocation ==
    /\ UNCHANGED nonNodeVars
    /\ \E res \in Allocations :
           /\ FitIn(NodeAvailable, Add(nodeInfoAvailable, res))
           /\ nodeInfoAvailable' = Add(nodeInfoAvailable, res)
    /\ snLast' = NoNodeOp
    /\ UNCHANGED <<snAllocating, snPreempting, cachedAvailable, cachedAvailableUpdateNeeded>>

NodeNext ==
    \/ NodeGetAvailableResource
    \/ NodeIncAllocatingResource
    \/ NodeDecAllocatingResource
    \/ NodeIncPreemptingResource
    \/ NodeDecPreemptingResource
    \/ NodeAllocateResource
    \/ CacheNodeAddAllocation
    \/ CacheNodeRemoveAllocation

(***************************************************************************)
(* Node reservations and the node lists of the partition                   *)
(* (scheduling_node.go reserve/unReserve, partition getSchedulingNodes)    *)
(***************************************************************************)
\* the number of applications that compete for the reservation of a node
NumReserveApps == 2

ReserveApps == 1..NumReserveApps

\* the asks of an application; the last one is larger than any node
ReserveAsks == 1..(NumAsks + 2)

\* reservation.getKey(): the application and the ask of a reservation ("appID|askKey")
ReservationKey(app, ask) == <<app, ask>>

\* a reserve that does not look at the reservations the node already holds
SchedulingNodeReserveNoCheck(reservations, app, ask) ==
    IF ~FitInNode(AskResource(ask))
    THEN [ok |-> FALSE, err |-> "does-not-fit", reservations |-> reservations]
    ELSE [ok |-> TRUE, err |-> "",
          reservations |-> reservations \cup {ReservationKey(app, ask)}]

\* schedulingNode.reserve(app, ask): refused on a node that holds any reservation and for
\* an ask that does not fit on the empty node
SchedulingNodeReserve(reservations, app, ask) ==
    IF Cardinality(reservations) > 0
    THEN [ok |-> FALSE, err |-> "reservation-conflict", reservations |-> reservations]
    ELSE IF ~FitInNode(AskResource(ask))
    THEN [ok |-> FALSE, err |-> "does-not-fit", reservations |-> reservations]
    ELSE [ok |-> TRUE, err |-> "",
          reservations |-> reservations \cup {ReservationKey(app, ask)}]

\* schedulingNode.unReserve(app, ask)
SchedulingNodeUnReserve(reservations, app, ask) ==
    IF ReservationKey(app, ask) \in reservations
    THEN [ok |-> TRUE, reservations |-> reservations \ {ReservationKey(app, ask)}]
    ELSE [ok |-> FALSE, reservations |-> reservations]

\* a node list that leaves reserved nodes in whatever the caller asked for
GetSchedulingNodesListKeepReserved(registered, schedulable, reservations, excludeReserved) ==
    {n \in registered : schedulable[n]}

\* the loop of getSchedulingNodes over the nodes still to visit, in any order
RECURSIVE SchedulingNodesLoop(_, _, _, _)
SchedulingNodesLoop(todo, schedulable, reservations, excludeReserved) ==
    IF todo = {} THEN {}
    ELSE LET node == CHOOSE n \in todo : TRUE
             rest == SchedulingNodesLoop(todo \ {node}, schedulable, reservations,
                                         excludeReserved)
         IN  IF ~schedulable[node]
                \/ (excludeReserved /\ Cardinality(reservations[node]) > 0)
             THEN rest
             ELSE {node} \cup rest

\* partitionSchedulingContext.getSchedulingNodes(excludeReserved) as the set of the nodes
\* in the returned slice; getSchedulableNodes() is getSchedulingNodes(true)
GetSchedulingNodesList(registered, schedulable, reservations, excludeReserved) ==
    SchedulingNodesLoop(registered, schedulable, reservations, excludeReserved)

NoReserveOp ==
    [op |-> "", node |-> 0, app |-> 0, ask |-> 0, ok |-> TRUE, excludeReserved |-> FALSE,
     list |-> {}]

ReserveInit ==
    /\ rsNodes = {}
    /\ rsSchedulable = [n \in Nodes |-> TRUE]
    /\ rsReservations = [n \in Nodes |-> {}]
    /\ rsLast = NoReserveOp

\* addSchedulingNode: a new node is schedulable and holds no reservation
ReserveAddNode ==
    /\ UNCHANGED nonReserveVars
    /\ \E n \in Nodes \ rsNodes : rsNodes' = rsNodes \cup {n}
    /\ rsLast' = NoReserveOp
    /\ UNCHANGED <<rsSchedulable, rsReservations>>

\* removeSchedulingNode: the node leaves the partition and its reservations are dropped
ReserveRemoveNode ==
    /\ UNCHANGED nonReserveVars
    /\ \E n \in rsNodes :
           /\ rsNodes' = rsNodes \ {n}
           /\ rsSchedulable' = [rsSchedulable EXCEPT ![n] = TRUE]
           /\ rsReservations' = [rsReservations EXCEPT ![n] = {}]
    /\ rsLast' = NoReserveOp

\* the cache changes the schedulable flag of a registered node
ReserveSetSchedulable ==
    /\ UNCHANGED nonReserveVars
    /\ \E n \in rsNodes :
           rsSchedulable' = [rsSchedulable EXCEPT ![n] = ~rsSchedulable[n]]
    /\ rsLast' = NoReserveOp
    /\ UNCHANGED <<rsNodes, rsReservations>>

\* schedulingNode.reserve(app, ask) on a registered node
ReserveOnNode ==
    /\ UNCHANGED nonReserveVars
    /\ \E n \in rsNodes, app \in ReserveApps, ask \in ReserveAsks :
           LET r == SchedulingNodeReserve(rsReservations[n], app, ask)
           IN  /\ rsReservations' = [rsReservations EXCEPT ![n] = r.reservations]
               /\ rsLast' = [NoReserveOp EXCEPT !.op = "reserve", !.node = n, !.app = app,
                                                !.ask = ask, !.ok = r.ok]
    /\ UNCHANGED <<rsNodes, rsSchedulable>>

\* schedulingNode.unReserve(app, ask) on a registered node
UnReserveOnNode ==
    /\ UNCHANGED nonReserveVars
    /\ \E n \in rsNodes, app \in ReserveApps, ask \in ReserveAsks :
           LET r == SchedulingNodeUnReserve(rsReservations[n], app, ask)
           IN  /\ rsReservations' = [rsReservations EXCEPT ![n] = r.reservations]
               /\ rsLast' = [NoReserveOp EXCEPT !.op = "unReserve", !.node = n,
                                                !.app = app, !.ask = ask, !.ok = r.ok]
    /\ UNCHANGED <<rsNodes, rsSchedulable>>

\* getSchedulableNodes() and getSchedulingNodes(false)
ListSchedulingNodes ==
    /\ UNCHANGED nonReserveVars
    /\ \E excludeReserved \in BOOLEAN :
           rsLast' = [NoReserveOp EXCEPT
                          !.op = "getSchedulingNodes",
                          !.excludeReserved = excludeReserved,
                          !.list = GetSchedulingNodesList(rsNodes, rsSchedulable,
                                                          rsReservations, excludeReserved)]
    /\ UNCHANGED <<rsNodes, rsSchedulable, rsReservations>>

ReserveNext ==
    \/ ReserveAddNode
    \/ ReserveRemoveNode
    \/ ReserveSetSchedulable
    \/ ReserveOnNode
    \/ UnReserveOnNode
    \/ ListSchedulingNodes

(***************************************************************************)
(* Candidate selection of the state-aware policy (StateAwareFilter)        *)
(***************************************************************************)
\* the number of applications in the map handed to the filter
NumFilterApps == 3

\* the submission times of the applications
MaxSubmissionTime == 2

FilterApps == 1..NumFilterApps

\* the states of the applications of a queue that is scheduling
FilterStates == {"New", "Accepted", "Starting", "Running"}

\* an application as the filter sees it; an application in state New has no asks
FilterAppValues ==
    {a \in [state : FilterStates, pending : {Zero, AskResource(1)},
            time : 1..MaxSubmissionTime] :
        a.state = "New" => a.pending = Zero}

\* the orders in which a map of the applications can be iterated
IterationOrders ==
    {o \in [FilterApps -> FilterApps] : \A i, j \in FilterApps : o[i] = o[j] => i = j}

\* no application tracked as the accepted application
NilApp == 0

\* a filter that notices a Starting application only when it has pending resources
StateAwareFilterPendingOnly(apps, order) ==
    LET step[i \in 0..Len(order)] ==
            IF i = 0
            THEN [filteredApps |-> <<>>, acceptedApp |-> NilApp, foundStarting |-> FALSE]
            ELSE LET prev == step[i - 1]
                     app == apps[order[i]]
                 IN  IF ~StrictlyGreaterThanZero(app.pending) THEN prev
                     ELSE IF app.state = "Starting"
                     THEN [filteredApps |-> Append(prev.filteredApps, order[i]),
                           acceptedApp |-> NilApp, foundStarting |-> TRUE]
                     ELSE IF app.state = "Accepted"
                     THEN [prev EXCEPT !.acceptedApp =
                               IF /\ ~prev.foundStarting
                                  /\ \/ prev.acceptedApp = NilApp
                                     \/ apps[prev.acceptedApp].time > app.time
                               THEN order[i] ELSE prev.acceptedApp]
                     ELSE [prev EXCEPT !.filteredApps = Append(prev.filteredApps, order[i])]
        end == step[Len(order)]
    IN  IF end.acceptedApp # NilApp
        THEN Append(end.filteredApps, end.acceptedApp)
        ELSE end.filteredApps

\* StateAwareFilter(apps) with the map iterated in the given order: a Starting application
\* clears the tracked accepted application whatever its pending resource; of the
\* applications with pending resources the Accepted ones are only tracked (the oldest, and
\* none once a Starting application was seen), every other one is added to the list; the
\* tracked accepted application is added at the end
StateAwareFilter(apps, order) ==
    LET step[i \in 0..Len(order)] ==
            IF i = 0
            THEN [filteredApps |-> <<>>, acceptedApp |-> NilApp, foundStarting |-> FALSE]
            ELSE LET prev == step[i - 1]
                     app == apps[order[i]]
                     seen == IF app.state = "Starting"
                             THEN [prev EXCEPT !.foundStarting = TRUE,
                                               !.acceptedApp = NilApp]
                             ELSE prev
                 IN  IF ~StrictlyGreaterThanZero(app.pending) THEN seen
                     ELSE IF app.state = "Accepted"
                     THEN [seen EXCEPT !.acceptedApp =
                               IF /\ ~seen.foundStarting
                                  /\ \/ seen.acceptedApp = NilApp
                                     \/ apps[seen.acceptedApp].time > app.time
                               THEN order[i] ELSE seen.acceptedApp]
                     ELSE [seen EXCEPT !.filteredApps = Append(seen.filteredApps, order[i])]
        end == step[Len(order)]
    IN  IF end.acceptedApp # NilApp
        THEN Append(end.filteredApps, end.acceptedApp)
        ELSE end.filteredApps

\* any map of applications, iterated in any order, not filtered yet
FilterInit ==
    /\ faApps \in [FilterApps -> FilterAppValues]
    /\ faOrder \in IterationOrders
    /\ faResult = <<>>
    /\ faDone = FALSE

\* a queue without asks, for the components that do not filter
FilterIdle ==
    /\ faApps = [a \in FilterApps |-> [state |-> "New", pending |-> Zero, time |-> 1]]
    /\ faOrder = [a \in FilterApps |-> a]
    /\ faResult = <<>>
    /\ faDone = FALSE

\* the queue asks for its candidates
FilterApplications ==
    /\ UNCHANGED nonFilterVars
    /\ ~faDone
    /\ faResult' = StateAwareFilter(faApps, faOrder)
    /\ faDone' = TRUE
    /\ UNCHANGED <<faApps, faOrder>>

FilterNext == FilterApplications

(***************************************************************************)
(* SortableLinkedMap (common/maps/sortable_linked_map.go)                  *)
(***************************************************************************)
\* the number of keys put into the map
NumMapKeys == 3

\* the largest value put into the map
MaxMapValue == 4

MapKeys == 1..NumMapKeys

MapValues == 1..MaxMapValue

\* a nil entry: no key, no index in the linked list
NilEntry == 0

\* the compareFunc of a sorted map, a strict weak order: i is placed before j
CompareFunc(i, j) == i < j

\* the matchFunc of the map
MatchFunc(value) == value % 2 = 0

\* slm.entries[key]: the position of the entry of a key in the linked list
EntryIndex(list, key) == CHOOSE i \in 1..Len(list) : list[i].key = key

\* the keys in slm.entries
EntryKeys(list) == {list[i].key : i \in 1..Len(list)}

\* a findPreEntry that always answers the tail
FindPreEntryTail(list, sorted, value) == Len(list)

\* findPreEntry(slm.tail, newEntry, true): the position of the entry the new entry is put
\* after, NilEntry for the head; without compareFunc the tail, with compareFunc the walk
\* from the tail towards the head stops at the first entry the new value is not placed
\* before
FindPreEntry(list, sorted, value) ==
    IF ~sorted THEN Len(list)
    ELSE LET lookup[i \in 0..Len(list)] ==
                 IF i = NilEntry THEN NilEntry
                 ELSE IF CompareFunc(value, list[i].value) THEN lookup[i - 1]
                 ELSE i
         IN  lookup[Len(list)]

\* putIntoLinkedList(preEntry, newEntry)
PutIntoLinkedList(list, preEntry, newEntry) ==
    SubSeq(list, 1, preEntry) \o <<newEntry>> \o SubSeq(list, preEntry + 1, Len(list))

\* findNextMatchedEntry(): the key of the first entry after the first matched entry that
\* is marked as matched
FindNextMatchedEntry(list, firstMatchedEntry) ==
    IF firstMatchedEntry = NilEntry THEN NilEntry
    ELSE LET from == EntryIndex(list, firstMatchedEntry)
             matched == {i \in (from + 1)..Len(list) : list[i].isMatched}
         IN  IF matched = {} THEN NilEntry
             ELSE list[CHOOSE i \in matched : \A j \in matched : i <= j].key

\* updateMatchedState(updatedEntry) for the entry of a key whose value is already set
UpdateMatchedState(list, firstMatchedEntry, sorted, key) ==
    LET i == EntryIndex(list, key)
        isMatched == MatchFunc(list[i].value)
        marked == [list EXCEPT ![i].isMatched = isMatched]
    IN  [list |-> marked,
         firstMatchedEntry |->
             IF isMatched
             THEN IF firstMatchedEntry = NilEntry THEN key
                  ELSE IF sorted /\ CompareFunc(marked[i].value,
                               marked[EntryIndex(marked, firstMatchedEntry)].value)
                  THEN key
                  ELSE firstMatchedEntry
             ELSE IF key = firstMatchedEntry
                  THEN FindNextMatchedEntry(marked, firstMatchedEntry)
                  ELSE firstMatchedEntry]

\* a Put that takes the entry of an existing key out of the list and puts it back where
\* its new value sorts
SlmPutReorder(list, firstMatchedEntry, sorted, key, value) ==
    LET rest == SelectSeq(list, LAMBDA e : e.key # key)
        newEntry == [key |-> key, value |-> value, isMatched |-> MatchFunc(value)]
        preEntry == IF ~sorted THEN Len(rest)
                    ELSE Cardinality({i \in 1..Len(rest) :
                                         ~CompareFunc(value, rest[i].value)})
        placed == SubSeq(rest, 1, preEntry) \o <<newEntry>>
                      \o SubSeq(rest, preEntry + 1, Len(rest))
        matched == {i \in 1..Len(placed) : placed[i].isMatched}
    IN  [list |-> placed,
         firstMatchedEntry |->
             IF matched = {} THEN NilEntry
             ELSE placed[CHOOSE i \in matched : \A j \in matched : i <= j].key,
         ret |-> IF key \in EntryKeys(list) THEN list[EntryIndex(list, key)].value
                 ELSE NilEntry]

\* Put(key, value): the value of an existing entry is replaced where the entry is and the
\* old value is returned; a new entry is put after the entry findPreEntry answers and nil
\* is returned; then the matched state is updated
SlmPut(list, firstMatchedEntry, sorted, key, value) ==
    IF key \in EntryKeys(list)
    THEN LET r == UpdateMatchedState([list EXCEPT ![EntryIndex(list, key)].value = value],
                                     firstMatchedEntry, sorted, key)
         IN  [list |-> r.list, firstMatchedEntry |-> r.firstMatchedEntry,
              ret |-> list[EntryIndex(list, key)].value]
    ELSE LET newEntry == [key |-> key, value |-> value, isMatched |-> FALSE]
             preEntry == FindPreEntry(list, sorted, value)
             r == UpdateMatchedState(PutIntoLinkedList(list, preEntry, newEntry),
                                     firstMatchedEntry, sorted, key)
         IN  [list |-> r.list, firstMatchedEntry |-> r.firstMatchedEntry,
              ret |-> NilEntry]

\* Remove(key) with removeFromLinkedList: the entry is taken out of the list and its value
\* is returned; when it was the first matched entry the next matched entry after it takes
\* its place
SlmRemove(list, firstMatchedEntry, key) ==
    IF key \notin EntryKeys(list)
    THEN [list |-> list, firstMatchedEntry |-> firstMatchedEntry, ret |-> NilEntry]
    ELSE [list |-> SelectSeq(list, LAMBDA e : e.key # key),
          firstMatchedEntry |->
              IF key = firstMatchedEntry
              THEN FindNextMatchedEntry(list, firstMatchedEntry)
              ELSE firstMatchedEntry,
          ret |-> list[EntryIndex(list, key)].value]

\* GetFirstMatched(): the key and the value of the first matched entry, or (nil, nil)
GetFirstMatched(list, firstMatchedEntry) ==
    IF firstMatchedEntry = NilEntry THEN <<NilEntry, NilEntry>>
    ELSE <<firstMatchedEntry, list[EntryIndex(list, firstMatchedEntry)].value>>

\* HasMatched()
HasMatched(firstMatchedEntry) == firstMatchedEntry # NilEntry

\* NewSortableLinkedMapIterator(linkedMap, findMatched) followed by Next() while HasNext():
\* the keys and values the iterator yields; it starts at the first matched entry or at the
\* head, and with findMatched it moves on to the next entry marked as matched before it
\* yields
IteratorYield(list, firstMatchedEntry, findMatched) ==
    LET indexEntry == IF findMatched
                      THEN IF firstMatchedEntry = NilEntry THEN Len(list) + 1
                           ELSE EntryIndex(list, firstMatchedEntry)
                      ELSE 1
        walk[i \in 1..(Len(list) + 1)] ==
            IF i > Len(list) THEN <<>>
            ELSE IF findMatched /\ ~list[i].isMatched THEN walk[i + 1]
            ELSE <<(<<list[i].key, list[i].value>>)>> \o walk[i + 1]
    IN  walk[indexEntry]

\* GetIterator()
GetIterator(list, firstMatchedEntry) == IteratorYield(list, firstMatchedEntry, FALSE)

\* GetMatchedIterator()
GetMatchedIterator(list, firstMatchedEntry) == IteratorYield(list, firstMatchedEntry, TRUE)

NoMapOp == [op |-> "", key |-> NilEntry, value |-> NilEntry, ret |-> NilEntry]

\* NewSortableLinkedMap(nil, matchFunc), for the components that keep no map
MapIdle ==
    /\ slmSorted = FALSE
    /\ slmList = <<>>
    /\ slmFirstMatchedEntry = NilEntry
    /\ slmLast = NoMapOp

\* NewSortableLinkedMap(compareFunc, matchFunc) with and without a compareFunc
MapInit ==
    /\ slmSorted \in BOOLEAN
    /\ slmList = <<>>
    /\ slmFirstMatchedEntry = NilEntry
    /\ slmLast = NoMapOp

\* Put(key, value) of a new or an existing key
MapPutEntry ==
    /\ UNCHANGED nonMapVars
    /\ \E key \in MapKeys, value \in MapValues :
           LET r == SlmPut(slmList, slmFirstMatchedEntry, slmSorted, key, value)
           IN  /\ slmList' = r.list
               /\ slmFirstMatchedEntry' = r.firstMatchedEntry
               /\ slmLast' = [op |-> "Put", key |-> key, value |-> value, ret |-> r.ret]
    /\ UNCHANGED slmSorted

\* Remove(key)
MapRemoveEntry ==
    /\ UNCHANGED nonMapVars
    /\ \E key \in MapKeys :
           LET r == SlmRemove(slmList, slmFirstMatchedEntry, key)
           IN  /\ slmList' = r.list
               /\ slmFirstMatchedEntry' = r.firstMatchedEntry
               /\ slmLast' = [op |-> "Remove", key |-> key, value |-> NilEntry,
                              ret |-> r.ret]
    /\ UNCHANGED slmSorted

\* Reset()
MapReset ==
    /\ UNCHANGED nonMapVars
    /\ slmList' = <<>>
    /\ slmFirstMatchedEntry' = NilEntry
    /\ slmLast' = [NoMapOp EXCEPT !.op = "Reset"]
    /\ UNCHANGED slmSorted

MapNext ==
    \/ MapPutEntry
    \/ MapRemoveEntry
    \/ MapReset

(***************************************************************************)
(* Queue life cycle (QueueInfo MarkQueueForRemoval and RemoveQueue)        *)
(***************************************************************************)
\* the queues that are created and removed: a parent with a leaf, and a leaf under the root
LifeQueues == {"root.parent", "root.parent.leaf1", "root.leaf"}

\* QueueInfo.children of a queue, as far as the queues exist
ChildQueues(qs, q) == {c \in LifeQueues : Parent(c) = q /\ qs[c].exists}

\* a queue that is not part of the tree
NoQueue ==
    [exists |-> FALSE, isManaged |-> FALSE, state |-> "Active", allocated |-> Zero,
     applications |-> 0]

\* NewManagedQueue and NewUnmanagedQueue: an active queue without allocation
NewQueue(isManaged) ==
    [exists |-> TRUE, isManaged |-> isManaged, state |-> "Active", allocated |-> Zero,
     applications |-> 0]

\* a marking that does not look at the managed flag
RECURSIVE MarkQueueForRemovalAll(_, _)
MarkQueueForRemovalAll(qs, q) ==
    LET marked == [qs EXCEPT ![q].state = "Draining"]
        Walk[todo \in SUBSET LifeQueues] ==
            IF todo = {} THEN marked
            ELSE LET c == CHOOSE x \in todo : TRUE
                 IN  MarkQueueForRemovalAll(Walk[todo \ {c}], c)
    IN  Walk[ChildQueues(qs, q)]

\* QueueInfo.MarkQueueForRemoval: a managed queue moves to Draining and marks its
\* children; on an unmanaged queue nothing happens
RECURSIVE MarkQueueForRemoval(_, _)
MarkQueueForRemoval(qs, q) ==
    IF ~qs[q].isManaged THEN qs
    ELSE LET marked == [qs EXCEPT ![q].state = "Draining"]
             Walk[todo \in SUBSET LifeQueues] ==
                 IF todo = {} THEN marked
                 ELSE LET c == CHOOSE x \in todo : TRUE
                      IN  MarkQueueForRemoval(Walk[todo \ {c}], c)
         IN  Walk[ChildQueues(qs, q)]

\* a removal that does not look at the children of the queue
RemoveQueueWithChildren(qs, q) ==
    IF \/ qs[q].isManaged /\ qs[q].state # "Draining"
       \/ qs[q].applications > 0
       \/ ~IsZero(qs[q].allocated)
    THEN [ok |-> FALSE, queues |-> qs]
    ELSE [ok |-> TRUE, queues |-> [qs EXCEPT ![q] = NoQueue]]

\* QueueInfo.RemoveQueue: a queue is taken out of the children of its parent when it has
\* no children, no applications and no allocated resource, and its state allows it: a
\* managed queue must have been marked for removal
RemoveQueue(qs, q) ==
    IF \/ qs[q].isManaged /\ qs[q].state # "Draining"
       \/ ChildQueues(qs, q) # {}
       \/ qs[q].applications > 0
       \/ ~IsZero(qs[q].allocated)
    THEN [ok |-> FALSE, queues |-> qs]
    ELSE [ok |-> TRUE, queues |-> [qs EXCEPT ![q] = NoQueue]]

NoLifeOp == [op |-> "", queue |-> "root", ok |-> TRUE]

\* a partition with its root queue only
LifeInit ==
    /\ qlQueues = [q \in LifeQueues |-> NoQueue]
    /\ qlLast = NoLifeOp

\* the parent of a queue is the root, or an existing active queue
ParentAccepts(q, isManaged) ==
    IF Parent(q) = "root" THEN TRUE
    ELSE /\ qlQueues[Parent(q)].exists
         /\ qlQueues[Parent(q)].state = "Active"
         /\ isManaged => qlQueues[Parent(q)].isManaged

\* NewManagedQueue (from the configuration) and NewUnmanagedQueue (from a placement rule)
LifeAddQueue ==
    /\ UNCHANGED nonLifeVars
    /\ \E q \in LifeQueues, isManaged \in BOOLEAN :
           /\ ~qlQueues[q].exists
           /\ ParentAccepts(q, isManaged)
           /\ qlQueues' = [qlQueues EXCEPT ![q] = NewQueue(isManaged)]
    /\ qlLast' = NoLifeOp

\* an application is added to or removed from an active leaf queue
LifeChangeApplications ==
    /\ UNCHANGED nonLifeVars
    /\ \E q \in LifeQueues :
           /\ qlQueues[q].exists
           /\ IsLeaf(q)
           /\ \/ /\ qlQueues[q].applications = 0
                 /\ qlQueues[q].state = "Active"
                 /\ qlQueues' = [qlQueues EXCEPT ![q].applications = 1]
              \/ /\ qlQueues[q].applications = 1
                 /\ qlQueues' = [qlQueues EXCEPT ![q].applications = 0]
    /\ qlLast' = NoLifeOp

\* IncAllocatedResource and decAllocatedResource called on the queue itself
LifeChangeAllocated ==
    /\ UNCHANGED nonLifeVars
    /\ \E q \in LifeQueues :
           /\ qlQueues[q].exists
           /\ qlQueues' = [qlQueues EXCEPT ![q].allocated =
                               IF IsZero(@) THEN AskResource(1) ELSE Zero]
    /\ qlLast' = NoLifeOp

\* MarkQueueForRemoval() on an existing queue
LifeMarkQueueForRemoval ==
    /\ UNCHANGED nonLifeVars
    /\ \E q \in LifeQueues :
           /\ qlQueues[q].exists
           /\ qlQueues' = MarkQueueForRemoval(qlQueues, q)
           /\ qlLast' = [op |-> "MarkQueueForRemoval", queue |-> q, ok |-> TRUE]

\* RemoveQueue() on an existing queue
LifeRemoveQueue ==
    /\ UNCHANGED nonLifeVars
    /\ \E q \in LifeQueues :
           /\ qlQueues[q].exists
           /\ LET r == RemoveQueue(qlQueues, q)
              IN  /\ qlQueues' = r.queues
                  /\ qlLast' = [op |-> "RemoveQueue", queue |-> q, ok |-> r.ok]

LifeNext ==
    \/ LifeAddQueue
    \/ LifeChangeApplications
    \/ LifeChangeAllocated
    \/ LifeMarkQueueForRemoval
    \/ LifeRemoveQueue

(***************************************************************************)
(* Locks taken by the operations of the partition                          *)
(***************************************************************************)
\* the goroutines: the scheduling driver, the RM event handler, the cache's answers
LockThreads == {"driver", "events", "cache"}

\* one mutex per partition, queue, application and node
Locks == {"partition", "queue", "application", "node"}

\* the position of a lock in the lock order partition, queue, application, node
LockRank(lock) ==
    CASE lock = "partition" -> 1
      [] lock = "queue" -> 2
      [] lock = "application" -> 3
      [] lock = "node" -> 4

\* getSchedulingNodes: the node list is read under the read lock of the partition
GetSchedulingNodesLocks == <<<<"RLock", "partition">>, <<"RUnlock", "partition">>>>

\* SchedulingApplication.tryAllocate and tryReservedAllocate: under the lock of the
\* application a node iterator is requested from the partition for an ask, then the
\* resource is allocated on a node
AppTryAllocateLocks ==
    <<<<"Lock", "application">>>> \o GetSchedulingNodesLocks
        \o <<<<"Lock", "node">>, <<"Unlock", "node">>, <<"Unlock", "application">>>>

\* partition.tryAllocate: without a lock of its own it reads the pending resource of the
\* root queue and descends from the root to an application
TryAllocateLocks ==
    <<<<"RLock", "queue">>, <<"RUnlock", "queue">>>> \o AppTryAllocateLocks

\* partition.tryReservedAllocate: reads reservedApps under the partition lock, releases
\* it and descends from the root to an application
TryReservedAllocateLocks ==
    <<<<"Lock", "partition">>, <<"Unlock", "partition">>>> \o AppTryAllocateLocks

\* partition.allocate: under the partition lock, reserve and unReserve lock the
\* application and inside it the node
AllocateLocks ==
    <<<<"Lock", "partition">>, <<"Lock", "application">>, <<"Lock", "node">>,
      <<"Unlock", "node">>, <<"Unlock", "application">>, <<"Unlock", "partition">>>>

\* partition.confirmAllocation: under the read lock of the partition the allocating
\* resource of the application, of its queue and of the node is decreased in turn
ConfirmAllocationLocks ==
    <<<<"RLock", "partition">>,
      <<"Lock", "application">>, <<"Unlock", "application">>,
      <<"Lock", "queue">>, <<"Unlock", "queue">>,
      <<"Lock", "node">>, <<"Unlock", "node">>,
      <<"RUnlock", "partition">>>>

\* partition.removeSchedulingApplication: under the partition lock the asks of the
\* application are removed, then the application is removed from its queue
RemoveSchedulingApplicationLocks ==
    <<<<"Lock", "partition">>,
      <<"Lock", "application">>, <<"Unlock", "application">>,
      <<"Lock", "queue">>, <<"Unlock", "queue">>,
      <<"Unlock", "partition">>>>

\* partition.removeSchedulingNode: under the partition lock the reservations of the node
\* are removed
RemoveSchedulingNodeLocks ==
    <<<<"Lock", "partition">>, <<"Lock", "node">>, <<"Unlock", "node">>,
      <<"Unlock", "partition">>>>

\* the operations a goroutine runs
LockOperations(t) ==
    CASE t = "driver" -> {"tryAllocate", "tryReservedAllocate", "allocate"}
      [] t = "events" -> {"removeSchedulingApplication", "removeSchedulingNode"}
      [] t = "cache" -> {"confirmAllocation"}

\* the lock calls of an operation in program order
LockProgram(op) ==
    CASE op = "tryAllocate" -> TryAllocateLocks
      [] op = "tryReservedAllocate" -> TryReservedAllocateLocks
      [] op = "allocate" -> AllocateLocks
      [] op = "confirmAllocation" -> ConfirmAllocationLocks
      [] op = "removeSchedulingApplication" -> RemoveSchedulingApplicationLocks
      [] op = "removeSchedulingNode" -> RemoveSchedulingNodeLocks

\* a goroutine that runs no operation
LockIdle == [op |-> "", step |-> 0]

\* the lock call a goroutine makes next, <<"", "">> when it runs no operation
NextLockCall(t) ==
    IF lkPc[t].op = "" THEN <<"", "">> ELSE LockProgram(lkPc[t].op)[lkPc[t].step]

\* sync.RWMutex: Lock waits for every other holder, RLock for a holder of the write lock
CanAcquire(t, call) ==
    \A u \in LockThreads \ {t} :
        /\ <<call[2], "w">> \notin lkHeld[u]
        /\ call[1] = "Lock" => <<call[2], "r">> \notin lkHeld[u]

\* a goroutine that waits in Lock or RLock
LockBlocked(t) ==
    /\ NextLockCall(t)[1] \in {"Lock", "RLock"}
    /\ ~CanAcquire(t, NextLockCall(t))

\* goroutines that wait for locks held by each other
LockDeadlock ==
    \E S \in SUBSET LockThreads :
        /\ S # {}
        /\ \A t \in S :
               /\ LockBlocked(t)
               /\ \E u \in S \ {t} : \E m \in {"r", "w"} : <<NextLockCall(t)[2], m>> \in lkHeld[u]

LockInit ==
    /\ lkPc = [t \in LockThreads |-> LockIdle]
    /\ lkHeld = [t \in LockThreads |-> {}]

\* a goroutine starts one of its operations
LockBegin ==
    /\ UNCHANGED nonLockVars
    /\ \E t \in LockThreads :
           /\ lkPc[t] = LockIdle
           /\ \E op \in LockOperations(t) : lkPc' = [lkPc EXCEPT ![t] = [op |-> op, step |-> 1]]
    /\ UNCHANGED lkHeld

\* a goroutine makes its next lock call and moves on, to the end of its operation
LockStep ==
    /\ UNCHANGED nonLockVars
    /\ \E t \in LockThreads :
           /\ lkPc[t] # LockIdle
           /\ LET call == NextLockCall(t)
                  mode == IF call[1] \in {"Lock", "Unlock"} THEN "w" ELSE "r"
              IN  /\ call[1] \in {"Lock", "RLock"} => CanAcquire(t, call)
                  /\ lkHeld' = [lkHeld EXCEPT ![t] =
                                   IF call[1] \in {"Lock", "RLock"}
                                   THEN @ \cup {<<call[2], mode>>}
                                   ELSE @ \ {<<call[2], mode>>}]
           /\ lkPc' = [lkPc EXCEPT ![t] =
                          IF @.step = Len(LockProgram(@.op)) THEN LockIdle
                          ELSE [@ EXCEPT !.step = @ + 1]]

LockNext == LockBegin \/ LockStep

(***************************************************************************)
(* Applications added to the partition                                     *)
(***************************************************************************)
\* applications submitted by the one user whose access the ACLs decide
NumSubmitApps == 2
SubmitApps == 1..NumSubmitApps

\* fully qualified queue names, as the sequence of their parts
RootPath == <<"root">>
QueuePaths == {<<"root", "a">>, <<"root", "a", "b">>, <<"root", "c">>}

\* name[0:strings.LastIndex(name, DOT)]
ParentPath(name) == SubSeq(name, 1, Len(name) - 1)

\* the queues of a set below a queue
PathsBelow(paths, q) == {p \in paths : Len(p) > Len(q) /\ SubSeq(p, 1, Len(q)) = q}

\* getQueue: the scheduling queue of that name, nil when a part of the name is missing
GetQueue(queues, name) == name \in queues

\* the deepest queue on the path of a name that exists
RECURSIVE DeepestExisting(_, _)
DeepestExisting(queues, name) ==
    IF name \in queues \/ Len(name) = 1 THEN name
    ELSE DeepestExisting(queues, ParentPath(name))

\* checkSubmitAccess: the ACL of the queue grants the user, or the walk up the tree
\* finds a queue whose ACL does
RECURSIVE CheckSubmitAccess(_, _)
CheckSubmitAccess(acl, q) ==
    \/ acl[q]
    \/ Len(q) > 1 /\ CheckSubmitAccess(acl, ParentPath(q))

\* the loop of createSchedulingQueue that looks for the scheduling queue furthest down
\* the hierarchy that exists: every round cuts the last part off name, never off
\* schedQueue, so that from the second round on schedQueue no longer changes and the
\* loop does not end when that queue is missing
RECURSIVE FindParentLoop(_, _, _, _)
FindParentLoop(queues, name, schedQueue, cacheQueue) ==
    IF GetQueue(queues, schedQueue)
    THEN [ends |-> TRUE, schedQueue |-> schedQueue, cacheQueue |-> cacheQueue]
    ELSE IF schedQueue = ParentPath(name)
         THEN [ends |-> FALSE, schedQueue |-> schedQueue, cacheQueue |-> schedQueue]
         ELSE FindParentLoop(queues, name, ParentPath(name), schedQueue)

\* newSchedulingQueueInfo: the scheduling queue of a cache queue, with the scheduling
\* queues of all the children of the cache queue
NewSchedulingQueueInfo(cache, queue) ==
    {queue} \cup PathsBelow({p \in DOMAIN cache : cache[p] # "none"}, queue)

\* createSchedulingQueue: the scheduling queues after the call, or no return
CreateSchedulingQueue(queues, cache, acl, name) ==
    LET found == FindParentLoop(queues, name, name, <<>>)
    IN  IF ~found.ends THEN [returns |-> FALSE, queues |-> queues]
        ELSE IF cache[found.cacheQueue] = "none" THEN [returns |-> TRUE, queues |-> queues]
        ELSE IF ~CheckSubmitAccess(acl, found.schedQueue)
             THEN [returns |-> TRUE, queues |-> queues]
        ELSE [returns |-> TRUE,
              queues |-> queues \cup NewSchedulingQueueInfo(cache, found.cacheQueue)]

\* no addSchedulingApplication yet
NoSubmitOp == [op |-> "", app |-> 0, queue |-> <<>>, ret |-> "", placement |-> FALSE]

SubmitInit ==
    /\ asCache = [p \in QueuePaths \cup {RootPath} |-> IF p = RootPath THEN "parent" ELSE "none"]
    /\ asQueues = {RootPath}
    /\ asAcl = [p \in QueuePaths \cup {RootPath} |-> FALSE]
    /\ asApplications = {}
    /\ asQueueApps = [p \in QueuePaths \cup {RootPath} |-> {}]
    /\ asLast = NoSubmitOp

\* the cache places an application: the leaf queue of the placement and the parent
\* queues above it that are missing are created in the cache
CacheCreateQueue ==
    /\ UNCHANGED nonSubmitVars
    /\ \E name \in QueuePaths :
           /\ asCache[name] = "none"
           /\ asCache[DeepestExisting({p \in DOMAIN asCache : asCache[p] # "none"}, name)] = "parent"
           /\ asCache' = [p \in DOMAIN asCache |->
                             IF p = name THEN "leaf"
                             ELSE IF asCache[p] = "none" /\ p \in {SubSeq(name, 1, i) : i \in 1..Len(name)}
                                  THEN "parent" ELSE asCache[p]]
    /\ asLast' = NoSubmitOp
    /\ UNCHANGED <<asQueues, asAcl, asApplications, asQueueApps>>

\* updatePartitionSchedulingContext: the scheduling queues follow the cache queues
UpdatePartitionSchedulingContext ==
    /\ UNCHANGED nonSubmitVars
    /\ asQueues' = {p \in DOMAIN asCache : asCache[p] # "none"}
    /\ asLast' = NoSubmitOp
    /\ UNCHANGED <<asCache, asAcl, asApplications, asQueueApps>>

\* the configuration sets the submit ACL of a queue
SetSubmitAcl ==
    /\ UNCHANGED nonSubmitVars
    /\ \E q \in DOMAIN asAcl : \E grants \in BOOLEAN :
           /\ asAcl[q] # grants
           /\ asAcl' = [asAcl EXCEPT ![q] = grants]
    /\ asLast' = NoSubmitOp
    /\ UNCHANGED <<asCache, asQueues, asApplications, asQueueApps>>

\* addSchedulingApplication that runs the placement and looks for the queue before it
\* looks at the registered of the partition
AddSchedulingApplicationPlaceFirst(registered, queues, cache, acl, app, queueName, placed) ==
    LET exists == GetQueue(queues, queueName)
        created == CreateSchedulingQueue(queues, cache, acl, queueName)
        fail(ret, qs) == [ret |-> ret, placement |-> TRUE, queues |-> qs, added |-> FALSE]
    IN  IF ~placed THEN fail("error", queues)
        ELSE IF exists /\ (cache[queueName] # "leaf" \/ ~CheckSubmitAccess(acl, queueName))
             THEN fail("error", queues)
        ELSE IF ~exists /\ ~created.returns THEN fail("no return", queues)
        ELSE IF ~exists /\ ~GetQueue(created.queues, queueName)
             THEN fail("error", created.queues)
        ELSE IF app \in registered
             THEN fail("error", IF exists THEN queues ELSE created.queues)
        ELSE [ret |-> "nil", placement |-> TRUE,
              queues |-> IF exists THEN queues ELSE created.queues, added |-> TRUE]

\* addSchedulingApplication: the result, whether the placement manager was called, the
\* scheduling queues after the call, and whether the application was added; placed tells
\* that the placement manager is not initialised or has placed the application
AddSchedulingApplicationResult(registered, queues, cache, acl, app, queueName, placed) ==
    LET exists == GetQueue(queues, queueName)
        created == CreateSchedulingQueue(queues, cache, acl, queueName)
        fail(ret, qs) == [ret |-> ret, placement |-> TRUE, queues |-> qs, added |-> FALSE]
    IN  IF app \in registered
        THEN [ret |-> "error", placement |-> FALSE, queues |-> queues, added |-> FALSE]
        ELSE IF ~placed THEN fail("error", queues)
        ELSE IF exists /\ (cache[queueName] # "leaf" \/ ~CheckSubmitAccess(acl, queueName))
             THEN fail("error", queues)
        ELSE IF ~exists /\ ~created.returns THEN fail("no return", queues)
        ELSE IF ~exists /\ ~GetQueue(created.queues, queueName)
             THEN fail("error", created.queues)
        ELSE [ret |-> "nil", placement |-> TRUE,
              queues |-> IF exists THEN queues ELSE created.queues, added |-> TRUE]

\* addSchedulingApplication, for an application placed in a queue or not placed at all
AddSchedulingApplicationToQueue ==
    /\ UNCHANGED nonSubmitVars
    /\ \E app \in SubmitApps : \E queueName \in QueuePaths \cup {RootPath} : \E placed \in BOOLEAN :
           LET result == AddSchedulingApplicationResult(asApplications, asQueues, asCache,
                                                        asAcl, app, queueName, placed)
           IN  /\ asQueues' = result.queues
               /\ asApplications' = IF result.added THEN asApplications \cup {app}
                                     ELSE asApplications
               /\ asQueueApps' = IF result.added
                                  THEN [asQueueApps EXCEPT ![queueName] = @ \cup {app}]
                                  ELSE asQueueApps
               /\ asLast' = [op |-> "addSchedulingApplication", app |-> app,
                              queue |-> queueName, ret |-> result.ret,
                              placement |-> result.placement]
    /\ UNCHANGED <<asCache, asAcl>>

SubmitNext ==
    \/ CacheCreateQueue
    \/ UpdatePartitionSchedulingContext
    \/ SetSubmitAcl
    \/ AddSchedulingApplicationToQueue

(***************************************************************************)
(* Round-robin node iterator                                               *)
(***************************************************************************)
\* the longest node list of an iterator; the node at index i of the list is node-i
MaxIterNodes == 4

\* startIdx of an iterator that has been reset and has not yet chosen a start
UnsetIdx == -1

\* the nil node Next returns
NilNode == -1

\* the index of the node Next returns counts from the head of the list
RoundRobinIndexFromZero(startIdx, countIdx, size) == countIdx % size

\* the index of the node Next returns cycles from the start index
RoundRobinIndex(startIdx, countIdx, size) == (countIdx + startIdx) % size

\* HasNext: there are nodes of the list that this epoch has not returned
RoundRobinHasNext(countIdx, size) == countIdx + 1 <= size

\* no call on the iterator yet
NoIterOp == [op |-> "", ret |-> NilNode, startIdx |-> 0, countIdx |-> 0]

\* the iterator over a nil list
IterInit ==
    /\ rrSize = 0
    /\ rrStartIdx = 0
    /\ rrCountIdx = 0
    /\ rrReturned = <<>>
    /\ rrLast = NoIterOp

\* NewRoundRobinNodeIterator: over a nil or empty list both indexes are 0, over a set
\* list the start is a random index of the list
NewRoundRobinNodeIterator ==
    /\ UNCHANGED nonIterVars
    /\ \E size \in 0..MaxIterNodes : \E start \in 0..MaxIterNodes :
           /\ IF size = 0 THEN start = 0 ELSE start < size
           /\ rrSize' = size
           /\ rrStartIdx' = start
    /\ rrCountIdx' = 0
    /\ rrReturned' = <<>>
    /\ rrLast' = NoIterOp

\* HasNext
IterHasNext ==
    /\ UNCHANGED nonIterVars
    /\ rrLast' = [op |-> "HasNext", ret |-> IF RoundRobinHasNext(rrCountIdx, rrSize) THEN 1 ELSE 0,
                  startIdx |-> rrStartIdx, countIdx |-> rrCountIdx]
    /\ UNCHANGED <<rrSize, rrStartIdx, rrCountIdx, rrReturned>>

\* Next: nil when the epoch has returned the whole list; the first call after a Reset
\* chooses a random start
IterNext ==
    /\ UNCHANGED nonIterVars
    /\ IF ~RoundRobinHasNext(rrCountIdx, rrSize)
       THEN /\ rrLast' = [op |-> "Next", ret |-> NilNode,
                          startIdx |-> rrStartIdx, countIdx |-> rrCountIdx]
            /\ UNCHANGED <<rrStartIdx, rrCountIdx, rrReturned>>
       ELSE \E start \in 0..(rrSize - 1) :
                /\ rrStartIdx # UnsetIdx => start = rrStartIdx
                /\ rrStartIdx' = start
                /\ rrCountIdx' = rrCountIdx + 1
                /\ rrReturned' = Append(rrReturned, RoundRobinIndex(start, rrCountIdx, rrSize))
                /\ rrLast' = [op |-> "Next", ret |-> RoundRobinIndex(start, rrCountIdx, rrSize),
                              startIdx |-> rrStartIdx, countIdx |-> rrCountIdx]
    /\ UNCHANGED rrSize

\* Reset: a fresh epoch
IterReset ==
    /\ UNCHANGED nonIterVars
    /\ rrStartIdx' = UnsetIdx
    /\ rrCountIdx' = 0
    /\ rrReturned' = <<>>
    /\ rrLast' = [op |-> "Reset", ret |-> NilNode, startIdx |-> rrStartIdx, countIdx |-> rrCountIdx]
    /\ UNCHANGED rrSize

IterStep == NewRoundRobinNodeIterator \/ IterHasNext \/ IterNext \/ IterReset

(***************************************************************************)
(* The reservedApps counter of one application                             *)
(***************************************************************************)
\* the application whose reservations are counted
CountApp == 1

\* app.removeAllocationAsk(allocKey): the reservations it releases, all the reservations
\* of the application for the empty key
ReleasedReservations(reservations, allocKey) ==
    IF allocKey = 0 THEN reservations ELSE {r \in reservations : r[1] = allocKey}

\* psc.reserve: nothing happens when the application is reserved on the node or the ask
\* is in a reservation, else application and node record the reservation and the counter
\* grows
CountReserve(app, node, counter, n, k) ==
    IF (\E r \in app : r[2] = n) \/ (\E r \in app : r[1] = k) \/ node[n] # {}
    THEN [app |-> app, node |-> node, counter |-> counter]
    ELSE [app |-> app \cup {<<k, n>>},
          node |-> [node EXCEPT ![n] = @ \cup {k}],
          counter |-> MapPut(counter, CountApp, Count(counter, CountApp) + 1)]

\* psc.unReserve: nothing happens when reservedApps has no count for the application,
\* else application and node drop the reservation, if they have it, and the counter goes
\* down by one
CountUnReserve(app, node, counter, n, k) ==
    IF Count(counter, CountApp) = 0
    THEN [app |-> app, node |-> node, counter |-> counter]
    ELSE [app |-> app \ {<<k, n>>},
          node |-> [node EXCEPT ![n] = @ \ {k}],
          counter |-> UnReserveCount(counter, CountApp, 1)]

\* unReserveCount(appID, 1) repeated for every appID node.unReserveApps returned
RECURSIVE UnReserveCountTimes(_, _)
UnReserveCountTimes(counter, times) ==
    IF times = 0 THEN counter
    ELSE UnReserveCountTimes(UnReserveCount(counter, CountApp, 1), times - 1)

\* no count has drifted below the bound of the model
CountDriftBounded == \A a \in DOMAIN rcReservedApps : rcReservedApps[a] >= -MaxDrift

CountInit ==
    /\ rcNodes = Nodes
    /\ rcAppReservations = {}
    /\ rcNodeReservations = [n \in Nodes |-> {}]
    /\ rcReservedApps = NoRequests
    /\ rcAlloc = NoAlloc
    /\ rcReleased = NoRelease

\* tryAllocate of the driver finds no node for an ask and picks a node to reserve
CountTryAllocate ==
    /\ UNCHANGED nonCountVars
    /\ rcAlloc = NoAlloc
    /\ \E k \in AskKeys : \E n \in rcNodes :
           /\ rcNodeReservations[n] = {}
           /\ ~\E r \in rcAppReservations : r[1] = k
           /\ rcAlloc' = [result |-> "reserved", app |-> CountApp, ask |-> k, nodeID |-> n,
                          reservedNodeID |-> 0]
    /\ UNCHANGED <<rcNodes, rcAppReservations, rcNodeReservations, rcReservedApps, rcReleased>>

\* tryReservedAllocate of the driver handles a reservation of the application: the ask
\* is unreserved, or allocated on the reserved node
CountTryReservedAllocate ==
    /\ UNCHANGED nonCountVars
    /\ rcAlloc = NoAlloc
    /\ DOMAIN rcReservedApps # {}
    /\ \E r \in rcAppReservations : \E result \in {"unreserved", "allocatedReserved"} :
           /\ r[2] \in rcNodes
           /\ rcAlloc' = [result |-> result, app |-> CountApp, ask |-> r[1], nodeID |-> r[2],
                          reservedNodeID |-> 0]
    /\ UNCHANGED <<rcNodes, rcAppReservations, rcNodeReservations, rcReservedApps, rcReleased>>

\* psc.allocate with the allocation the driver holds
CountAllocate ==
    /\ UNCHANGED nonCountVars
    /\ rcAlloc # NoAlloc
    /\ CountDriftBounded
    /\ LET n == AllocateNodeID(rcAlloc)
           k == rcAlloc.ask
           after == IF n \notin rcNodes
                    THEN [app |-> rcAppReservations, node |-> rcNodeReservations,
                          counter |-> rcReservedApps]
                    ELSE IF rcAlloc.result = "reserved"
                    THEN CountReserve(rcAppReservations, rcNodeReservations, rcReservedApps, n, k)
                    ELSE CountUnReserve(rcAppReservations, rcNodeReservations, rcReservedApps, n, k)
       IN  /\ rcAppReservations' = after.app
           /\ rcNodeReservations' = after.node
           /\ rcReservedApps' = after.counter
    /\ rcAlloc' = NoAlloc
    /\ UNCHANGED <<rcNodes, rcReleased>>

\* the scheduler removes one ask of the application, or all asks with the empty key 0:
\* the application releases the reservations of the asks and returns their number
CountRemoveAllocationAsk ==
    /\ UNCHANGED nonCountVars
    /\ rcReleased = NoRelease
    /\ \E allocKey \in AskKeys \cup {0} :
           LET gone == ReleasedReservations(rcAppReservations, allocKey)
           IN  /\ rcAppReservations' = rcAppReservations \ gone
               /\ rcNodeReservations' =
                      [n \in Nodes |-> rcNodeReservations[n] \ {r[1] : r \in {x \in gone : x[2] = n}}]
               /\ rcReleased' = IF gone = {} THEN NoRelease
                                ELSE [app |-> CountApp, asks |-> Cardinality(gone)]
    /\ UNCHANGED <<rcNodes, rcReservedApps, rcAlloc>>

\* psc.unReserveUpdate with the number of reservations the ask removal released
CountUnReserveUpdate ==
    /\ UNCHANGED nonCountVars
    /\ rcReleased # NoRelease
    /\ CountDriftBounded
    /\ rcReservedApps' = UnReserveCount(rcReservedApps, rcReleased.app, rcReleased.asks)
    /\ rcReleased' = NoRelease
    /\ UNCHANGED <<rcNodes, rcAppReservations, rcNodeReservations, rcAlloc>>

\* psc.removeSchedulingNode: node.unReserveApps removes the reservations of the node
\* from the application, the counter goes down once for each of them
CountRemoveSchedulingNode ==
    /\ UNCHANGED nonCountVars
    /\ rcReleased = NoRelease
    /\ CountDriftBounded
    /\ \E n \in rcNodes :
           /\ rcNodes' = rcNodes \ {n}
           /\ rcAppReservations' =
                  {r \in rcAppReservations : ~(r[2] = n /\ r[1] \in rcNodeReservations[n])}
           /\ rcReservedApps' =
                  UnReserveCountTimes(rcReservedApps, Cardinality(rcNodeReservations[n]))
           /\ rcNodeReservations' = [rcNodeReservations EXCEPT ![n] = {}]
    /\ UNCHANGED <<rcAlloc, rcReleased>>

\* psc.addSchedulingNode: a new scheduling node without reservations takes the place
CountAddSchedulingNode ==
    /\ UNCHANGED nonCountVars
    /\ \E n \in Nodes :
           /\ rcNodes' = rcNodes \cup {n}
           /\ rcNodeReservations' = [rcNodeReservations EXCEPT ![n] = {}]
    /\ UNCHANGED <<rcAppReservations, rcReservedApps, rcAlloc, rcReleased>>

CountNext ==
    \/ CountTryAllocate
    \/ CountTryReservedAllocate
    \/ CountAllocate
    \/ CountRemoveAllocationAsk
    \/ CountUnReserveUpdate
    \/ CountRemoveSchedulingNode
    \/ CountAddSchedulingNode

(***************************************************************************)
(* Concurrent allocation attempts on one scheduling node                   *)
(***************************************************************************)
\* the goroutines that try to allocate on the node at the same time
NumCallers == 2
Callers == 1..NumCallers

\* schedulingNode.preAllocateCheck(res, preemptionPhase), without a lock: the node is
\* schedulable, the resource is more than zero and fits beside the allocating resource
PreAllocateCheck(schedulable, available, allocating, preempting, res, preemptionPhase) ==
    /\ schedulable
    /\ StrictlyGreaterThanZero(res)
    /\ FitIn(IF preemptionPhase THEN Add(available, preempting) ELSE available,
             Add(res, allocating))

\* a caller that is not trying to allocate
IdleCaller == [pc |-> "idle", res |-> Zero, seen |-> Zero, ok |-> FALSE]

RaceInit ==
    /\ raAllocating = Zero
    /\ raGranted = Zero
    /\ raCallers = [c \in Callers |-> IdleCaller]

\* a caller runs preAllocateCheck for an ask on the node; when the check fails it looks
\* at the next node
RacePreAllocateCheck ==
    /\ UNCHANGED nonRaceVars
    /\ \E c \in Callers : \E k \in AskKeys :
           /\ raCallers[c].pc = "idle"
           /\ PreAllocateCheck(TRUE, NodeAvailable, raAllocating, Zero, AskResource(k), FALSE)
           /\ raCallers' = [raCallers EXCEPT ![c] = [pc |-> "checked", res |-> AskResource(k),
                                                     seen |-> raAllocating, ok |-> FALSE]]
    /\ UNCHANGED <<raAllocating, raGranted>>

\* a caller whose check passed calls allocateResource(res, false), which runs under the
\* lock of the node
RaceAllocateResource ==
    /\ UNCHANGED nonRaceVars
    /\ \E c \in Callers :
           /\ raCallers[c].pc = "checked"
           /\ LET r == AllocateResource(NodeAvailable, raAllocating, Zero, raCallers[c].res, FALSE)
              IN  /\ raAllocating' = r.allocating
                  /\ raGranted' = IF r.ok THEN Add(raGranted, raCallers[c].res) ELSE raGranted
                  /\ raCallers' = [raCallers EXCEPT ![c].pc = "done", ![c].ok = r.ok]

\* a caller is done with its attempt: a failed one gives up the node, a successful one
\* has its proposal rejected and the allocating resource is decreased again
RaceDecAllocatingResource ==
    /\ UNCHANGED nonRaceVars
    /\ \E c \in Callers :
           /\ raCallers[c].pc = "done"
           /\ IF raCallers[c].ok
              THEN /\ raAllocating' = DecAllocatingResource(raAllocating, raCallers[c].res)
                   /\ raGranted' = Sub(raGranted, raCallers[c].res)
              ELSE UNCHANGED <<raAllocating, raGranted>>
           /\ raCallers' = [raCallers EXCEPT ![c] = IdleCaller]

RaceNext == RacePreAllocateCheck \/ RaceAllocateResource \/ RaceDecAllocatingResource

(***************************************************************************)
(* Reservation keys of a scheduling node                                   *)
(***************************************************************************)
\* application IDs are strings of up to MaxAppIDLen characters out of 1..NumIDChars
MaxAppIDLen == 2
NumIDChars == 2

\* the character "|" between the application ID and the allocation key
KeySeparator == 0

\* the IDs of applications: not empty
KeyAppIDs == UNION {[1..len -> 1..NumIDChars] : len \in 1..MaxAppIDLen}

\* the allocation keys of asks: one character
KeyAllocationKeys == {<<c>> : c \in 1..NumIDChars}

\* reservationKey(nil, app, ask): appID|allocationKey
NodeReservationKey(appID, allocationKey) == appID \o <<KeySeparator>> \o allocationKey

\* strings.HasPrefix(s, prefix)
HasPrefix(s, prefix) == Len(s) >= Len(prefix) /\ SubSeq(s, 1, Len(prefix)) = prefix

\* schedulingNode.isReservedForApp(appID): false for the empty ID, else true when a key
\* of the reservations starts with appID
IsReservedForApp(reservations, appID) ==
    /\ appID # <<>>
    /\ \E r \in reservations : HasPrefix(r.key, appID)

\* no call yet
NoKeyOp == [op |-> "", appID |-> <<>>, ret |-> FALSE]

KeyInit ==
    /\ rkReservations = {}
    /\ rkLast = NoKeyOp

\* schedulingNode.reserve(app, ask): refused when the node holds a reservation
KeyReserve ==
    /\ UNCHANGED nonKeyVars
    /\ \E appID \in KeyAppIDs, allocationKey \in KeyAllocationKeys :
           /\ rkReservations' =
                  IF rkReservations # {} THEN rkReservations
                  ELSE {[key |-> NodeReservationKey(appID, allocationKey), appID |-> appID]}
           /\ rkLast' = [op |-> "reserve", appID |-> appID, ret |-> rkReservations = {}]

\* schedulingNode.unReserve(app, ask)
KeyUnReserve ==
    /\ UNCHANGED nonKeyVars
    /\ \E appID \in KeyAppIDs, allocationKey \in KeyAllocationKeys :
           LET key == NodeReservationKey(appID, allocationKey)
           IN  /\ rkReservations' = {r \in rkReservations : r.key # key}
               /\ rkLast' = [op |-> "unReserve", appID |-> appID,
                             ret |-> \E r \in rkReservations : r.key = key]

\* schedulingNode.isReservedForApp(appID), also with the empty ID
KeyIsReservedForApp ==
    /\ UNCHANGED nonKeyVars
    /\ \E appID \in KeyAppIDs \cup {<<>>} :
           rkLast' = [op |-> "isReservedForApp", appID |-> appID,
                      ret |-> IsReservedForApp(rkReservations, appID)]
    /\ UNCHANGED rkReservations

KeyNext == KeyReserve \/ KeyUnReserve \/ KeyIsReservedForApp

(***************************************************************************)
(* SortAskByPriority (common/maps/sortable_linked_map.go)                  *)
(***************************************************************************)
\* the most requests in the slice that is sorted
MaxRequests == 3

\* the highest priority of a request
MaxPriority == 2

\* the latest create time of a request
MaxCreateTime == 2

\* the less function that compares the priorities only
AskLessPriorityOnly(l, r, ascending) ==
    IF ascending THEN l.priority < r.priority ELSE l.priority > r.priority

\* the less function handed to sort.SliceStable: requests of one priority by create time,
\* the others by priority, upwards when ascending and downwards when not
AskLess(l, r, ascending) ==
    IF l.priority = r.priority THEN l.createTime < r.createTime
    ELSE IF ascending THEN l.priority < r.priority
    ELSE l.priority > r.priority

\* one pass of the insertion sort of sort.SliceStable: the request at position i moves
\* towards the head while it is less than the request before it
RECURSIVE SinkRequest(_, _, _)
SinkRequest(slice, j, ascending) ==
    IF j > 1 /\ AskLess(slice[j], slice[j - 1], ascending)
    THEN SinkRequest([slice EXCEPT ![j] = slice[j - 1], ![j - 1] = slice[j]],
                     j - 1, ascending)
    ELSE slice

\* SortAskByPriority(requests, ascending): sort.SliceStable, an insertion sort for a slice
\* this short
RECURSIVE SliceStableFrom(_, _, _)
SliceStableFrom(slice, i, ascending) ==
    IF i > Len(slice) THEN slice
    ELSE SliceStableFrom(SinkRequest(slice, i, ascending), i + 1, ascending)

SortAskByPriority(slice, ascending) == SliceStableFrom(slice, 2, ascending)

NoSortOp == [op |-> "", ascending |-> FALSE]

\* no slice of requests
SortInit ==
    /\ skRequests = <<>>
    /\ skLast = NoSortOp

\* a request with a priority and a create time is appended to the slice
SortAddRequest ==
    /\ UNCHANGED nonSortVars
    /\ Len(skRequests) < MaxRequests
    /\ \E priority \in 1..MaxPriority, createTime \in 1..MaxCreateTime :
           skRequests' = Append(skRequests, [id |-> Len(skRequests) + 1,
                                             priority |-> priority,
                                             createTime |-> createTime])
    /\ skLast' = [NoSortOp EXCEPT !.op = "add"]

\* the slice is dropped
SortClear ==
    /\ UNCHANGED nonSortVars
    /\ skRequests # <<>>
    /\ skRequests' = <<>>
    /\ skLast' = [NoSortOp EXCEPT !.op = "clear"]

\* SortAskByPriority(requests, ascending)
SortRequests ==
    /\ UNCHANGED nonSortVars
    /\ \E ascending \in BOOLEAN :
           /\ skRequests' = SortAskByPriority(skRequests, ascending)
           /\ skLast' = [op |-> "sort", ascending |-> ascending]

SortNext ==
    \/ SortAddRequest
    \/ SortClear
    \/ SortRequests

(***************************************************************************)
(* shimPublisher (events)                                                  *)
(***************************************************************************)
\* the most events the store holds between two collections
MaxStoredEvents == 3

\* the most SendEvent calls counted after Stop
MaxSendsCounted == 2

\* a loop head that does not look at the stop flag
LoopHeadIgnoresStop(stopped) == "plugin"

\* the head of the loop of the publishing goroutine: break when isStopped() answers true,
\* another iteration otherwise
LoopHead(stopped) == IF stopped THEN "exited" ELSE "plugin"

\* newShimPublisher(store): not stopped, no goroutine yet
PublisherInit ==
    /\ spStopped = FALSE
    /\ spPc = "new"
    /\ spPlugin = FALSE
    /\ spStore = 0
    /\ spMessages = 0
    /\ spSendsAfterStop = 0
    /\ spPanicked = FALSE

\* StartService(): the goroutine starts at the head of its loop
StartService ==
    /\ UNCHANGED nonPublisherVars
    /\ ~spPanicked
    /\ spPc = "new"
    /\ spPc' = "head"
    /\ UNCHANGED <<spStopped, spPlugin, spStore, spMessages, spSendsAfterStop, spPanicked>>

\* Stop(): the flag is set under the lock; a second Stop panics
Stop ==
    /\ UNCHANGED nonPublisherVars
    /\ ~spPanicked
    /\ IF spStopped
       THEN spPanicked' = TRUE /\ UNCHANGED spStopped
       ELSE spStopped' = TRUE /\ UNCHANGED spPanicked
    /\ UNCHANGED <<spPc, spPlugin, spStore, spMessages, spSendsAfterStop>>

\* an event plugin is registered with the plugins package
RegisterEventPlugin ==
    /\ UNCHANGED nonPublisherVars
    /\ ~spPanicked
    /\ ~spPlugin
    /\ spPlugin' = TRUE
    /\ UNCHANGED <<spStopped, spPc, spStore, spMessages, spSendsAfterStop, spPanicked>>

\* an event is put into the store
StoreEvent ==
    /\ UNCHANGED nonPublisherVars
    /\ ~spPanicked
    /\ spStore < MaxStoredEvents
    /\ spStore' = spStore + 1
    /\ UNCHANGED <<spStopped, spPc, spPlugin, spMessages, spSendsAfterStop, spPanicked>>

\* the goroutine at the head of the loop: isStopped()
PublisherIsStopped ==
    /\ UNCHANGED nonPublisherVars
    /\ ~spPanicked
    /\ spPc = "head"
    /\ spPc' = LoopHead(spStopped)
    /\ UNCHANGED <<spStopped, spPlugin, spStore, spMessages, spSendsAfterStop, spPanicked>>

\* plugins.GetEventPlugin(): without a plugin the iteration goes to sleep at once
PublisherGetEventPlugin ==
    /\ UNCHANGED nonPublisherVars
    /\ ~spPanicked
    /\ spPc = "plugin"
    /\ spPc' = IF spPlugin THEN "collect" ELSE "sleep"
    /\ UNCHANGED <<spStopped, spPlugin, spStore, spMessages, spSendsAfterStop, spPanicked>>

\* sp.store.CollectEvents(): the store is emptied into the messages
PublisherCollectEvents ==
    /\ UNCHANGED nonPublisherVars
    /\ ~spPanicked
    /\ spPc = "collect"
    /\ spMessages' = spStore
    /\ spStore' = 0
    /\ spPc' = "send"
    /\ UNCHANGED <<spStopped, spPlugin, spSendsAfterStop, spPanicked>>

\* eventPlugin.SendEvent(messages): an error is logged only
PublisherSendEvent ==
    /\ UNCHANGED nonPublisherVars
    /\ ~spPanicked
    /\ spPc = "send"
    /\ spMessages' = 0
    /\ spSendsAfterStop' = IF spStopped /\ spSendsAfterStop < MaxSendsCounted
                           THEN spSendsAfterStop + 1 ELSE spSendsAfterStop
    /\ spPc' = "sleep"
    /\ UNCHANGED <<spStopped, spPlugin, spStore, spPanicked>>

\* time.Sleep(pushEventInterval) is over
PublisherSleep ==
    /\ UNCHANGED nonPublisherVars
    /\ ~spPanicked
    /\ spPc = "sleep"
    /\ spPc' = "head"
    /\ UNCHANGED <<spStopped, spPlugin, spStore, spMessages, spSendsAfterStop, spPanicked>>

\* the steps of the publishing goroutine
PublisherStep ==
    \/ PublisherIsStopped
    \/ PublisherGetEventPlugin
    \/ PublisherCollectEvents
    \/ PublisherSendEvent
    \/ PublisherSleep

PublisherNext ==
    \/ StartService
    \/ Stop
    \/ RegisterEventPlugin
    \/ StoreEvent
    \/ PublisherStep

(***************************************************************************)
(* SortableLinkedMap as linked entries with a hash index                   *)
(* (common/maps/sortable_linked_map.go)                                    *)
(***************************************************************************)
\* an entry that is not allocated: no value, no links
NoEntry == [value |-> NilEntry, pre |-> NilEntry, next |-> NilEntry, isMatched |-> FALSE]

\* getEntryItems: the keys met when following next from an entry, at most limit of them
RECURSIVE LinkedKeys(_, _, _)
LinkedKeys(links, entry, limit) ==
    IF entry = NilEntry \/ limit = 0 THEN <<>>
    ELSE <<entry>> \o LinkedKeys(links, links[entry].next, limit - 1)

\* findPreEntry(slm.tail, newEntry, true) on the linked entries: without compareFunc the
\* tail; with compareFunc the walk over pre from the tail stops at the first entry the new
\* value is not placed before, and answers nil past the head
RECURSIVE LinkedFindPreEntry(_, _, _, _)
LinkedFindPreEntry(m, sorted, lookupEntry, value) ==
    IF ~sorted THEN m.tail
    ELSE IF lookupEntry = NilEntry THEN NilEntry
    ELSE IF CompareFunc(value, m.nodes[lookupEntry].value)
    THEN LinkedFindPreEntry(m, sorted, m.nodes[lookupEntry].pre, value)
    ELSE lookupEntry

\* a putIntoLinkedList that leaves the tail alone
PutIntoLinkedListKeepTail(m, preEntry, newEntry) ==
    LET after == IF preEntry # NilEntry THEN m.nodes[preEntry].next ELSE m.head
        n1 == [m.nodes EXCEPT ![newEntry].pre = preEntry, ![newEntry].next = after]
        n2 == IF after # NilEntry THEN [n1 EXCEPT ![after].pre = newEntry] ELSE n1
        n3 == IF preEntry # NilEntry THEN [n2 EXCEPT ![preEntry].next = newEntry] ELSE n2
    IN  [m EXCEPT !.nodes = n3,
                  !.head = IF preEntry = NilEntry THEN newEntry ELSE m.head,
                  !.tail = IF m.tail = NilEntry THEN newEntry ELSE m.tail]

\* putIntoLinkedList(preEntry, newEntry): the new entry is linked after the pre entry, or
\* as the head when the pre entry is nil; it becomes the tail when the tail was the pre entry
LinkedPutIntoLinkedList(m, preEntry, newEntry) ==
    LET linked ==
            IF preEntry # NilEntry
            THEN LET after == m.nodes[preEntry].next
                     n1 == [m.nodes EXCEPT ![newEntry].pre = preEntry,
                                           ![newEntry].next = after]
                     n2 == IF after # NilEntry THEN [n1 EXCEPT ![after].pre = newEntry]
                           ELSE n1
                 IN  [m EXCEPT !.nodes = [n2 EXCEPT ![preEntry].next = newEntry]]
            ELSE IF m.head = NilEntry
            THEN [m EXCEPT !.head = newEntry]
            ELSE [m EXCEPT !.nodes = [m.nodes EXCEPT ![m.head].pre = newEntry,
                                                     ![newEntry].next = m.head,
                                                     ![newEntry].pre = NilEntry],
                           !.head = newEntry]
    IN  [linked EXCEPT !.tail = IF m.tail = preEntry THEN newEntry ELSE m.tail]

\* findNextMatchedEntry(): the first entry marked as matched after the first matched entry
RECURSIVE LinkedNextMatched(_, _)
LinkedNextMatched(links, lookupEntry) ==
    IF lookupEntry = NilEntry THEN NilEntry
    ELSE IF links[lookupEntry].isMatched THEN lookupEntry
    ELSE LinkedNextMatched(links, links[lookupEntry].next)

LinkedFindNextMatchedEntry(m) ==
    IF m.firstMatchedEntry = NilEntry THEN NilEntry
    ELSE LinkedNextMatched(m.nodes, m.nodes[m.firstMatchedEntry].next)

\* updateMatchedState(updatedEntry)
LinkedUpdateMatchedState(m, sorted, updatedEntry) ==
    LET isMatched == MatchFunc(m.nodes[updatedEntry].value)
        marked == [m EXCEPT !.nodes = [m.nodes EXCEPT ![updatedEntry].isMatched = isMatched]]
    IN  IF isMatched
        THEN IF marked.firstMatchedEntry = NilEntry
             THEN [marked EXCEPT !.firstMatchedEntry = updatedEntry]
             ELSE IF sorted /\ CompareFunc(marked.nodes[updatedEntry].value,
                                           marked.nodes[marked.firstMatchedEntry].value)
             THEN [marked EXCEPT !.firstMatchedEntry = updatedEntry]
             ELSE marked
        ELSE IF updatedEntry = marked.firstMatchedEntry
             THEN [marked EXCEPT !.firstMatchedEntry = LinkedFindNextMatchedEntry(marked)]
             ELSE marked

\* removeFromLinkedList(entry): head and tail move off the entry, its neighbours are
\* linked to each other, and the first matched entry moves on when it was the entry
LinkedRemoveFromLinkedList(m, entry) ==
    LET pre == m.nodes[entry].pre
        next == m.nodes[entry].next
        n1 == IF pre # NilEntry THEN [m.nodes EXCEPT ![pre].next = next] ELSE m.nodes
        n2 == IF next # NilEntry THEN [n1 EXCEPT ![next].pre = pre] ELSE n1
        unlinked == [m EXCEPT !.nodes = n2,
                              !.head = IF entry = m.head THEN next ELSE m.head,
                              !.tail = IF entry = m.tail THEN pre ELSE m.tail]
    IN  IF entry = m.firstMatchedEntry
        THEN [unlinked EXCEPT !.firstMatchedEntry = LinkedFindNextMatchedEntry(unlinked)]
        ELSE unlinked

\* Put(key, value) on the linked entries
LinkedPut(m, sorted, key, value) ==
    IF key \in m.entries
    THEN LinkedUpdateMatchedState([m EXCEPT !.nodes = [m.nodes EXCEPT ![key].value = value]],
                                  sorted, key)
    ELSE LET created == [m EXCEPT !.nodes = [m.nodes EXCEPT ![key] =
                                                 [NoEntry EXCEPT !.value = value]]]
             preEntry == LinkedFindPreEntry(created, sorted, created.tail, value)
             placed == LinkedUpdateMatchedState(
                           LinkedPutIntoLinkedList(created, preEntry, key), sorted, key)
         IN  [placed EXCEPT !.entries = m.entries \cup {key}]

\* Remove(key) on the linked entries; the entry that was taken out is not referenced again
LinkedRemove(m, key) ==
    IF key \in m.entries
    THEN LET removed == LinkedRemoveFromLinkedList(m, key)
         IN  [removed EXCEPT !.entries = m.entries \ {key},
                             !.nodes = [removed.nodes EXCEPT ![key] = NoEntry]]
    ELSE m

\* Get(key)
LinkedGet(m, key) == IF key \in m.entries THEN m.nodes[key].value ELSE NilEntry

\* Size()
LinkedSize(m) == Cardinality(m.entries)

\* GetHead() and GetTail() through getEntry: key and value, or (nil, nil)
LinkedGetEntry(m, entry) ==
    IF entry # NilEntry THEN <<entry, m.nodes[entry].value>> ELSE <<NilEntry, NilEntry>>

\* the map of the linked entries as one record
LinkedMap ==
    [entries |-> llEntries, nodes |-> llNodes, head |-> llHead, tail |-> llTail,
     firstMatchedEntry |-> llFirstMatchedEntry]

NoLinkedOp == [op |-> "", key |-> NilEntry, value |-> NilEntry]

\* NewSortableLinkedMap(nil, matchFunc), for the components that keep no map
LinkedIdle ==
    /\ llSorted = FALSE
    /\ llEntries = {}
    /\ llNodes = [k \in MapKeys |-> NoEntry]
    /\ llHead = NilEntry
    /\ llTail = NilEntry
    /\ llFirstMatchedEntry = NilEntry
    /\ llPuts = [k \in MapKeys |-> NilEntry]
    /\ llLast = NoLinkedOp

LinkedStore(m) ==
    /\ llEntries' = m.entries
    /\ llNodes' = m.nodes
    /\ llHead' = m.head
    /\ llTail' = m.tail
    /\ llFirstMatchedEntry' = m.firstMatchedEntry

\* a compareFunc is chosen for the empty map: NewSortableLinkedMap(compareFunc, matchFunc)
LinkedNew ==
    /\ UNCHANGED nonLinkedVars
    /\ llLast.op = ""
    /\ \E sorted \in BOOLEAN : llSorted' = sorted
    /\ llLast' = [NoLinkedOp EXCEPT !.op = "New"]
    /\ UNCHANGED <<llEntries, llNodes, llHead, llTail, llFirstMatchedEntry, llPuts>>

\* Put(key, value)
LinkedPutEntry ==
    /\ UNCHANGED nonLinkedVars
    /\ llLast.op # ""
    /\ \E key \in MapKeys, value \in MapValues :
           /\ LinkedStore(LinkedPut(LinkedMap, llSorted, key, value))
           /\ llPuts' = [llPuts EXCEPT ![key] = value]
           /\ llLast' = [op |-> "Put", key |-> key, value |-> value]
    /\ UNCHANGED llSorted

\* Remove(key)
LinkedRemoveEntry ==
    /\ UNCHANGED nonLinkedVars
    /\ llLast.op # ""
    /\ \E key \in MapKeys :
           /\ LinkedStore(LinkedRemove(LinkedMap, key))
           /\ llPuts' = [llPuts EXCEPT ![key] = NilEntry]
           /\ llLast' = [op |-> "Remove", key |-> key, value |-> NilEntry]
    /\ UNCHANGED llSorted

\* Reset(): a new index, no head, no tail, no first matched entry
LinkedReset ==
    /\ UNCHANGED nonLinkedVars
    /\ llLast.op # ""
    /\ llEntries' = {}
    /\ llNodes' = [k \in MapKeys |-> NoEntry]
    /\ llHead' = NilEntry
    /\ llTail' = NilEntry
    /\ llFirstMatchedEntry' = NilEntry
    /\ llLast' = [NoLinkedOp EXCEPT !.op = "Reset"]
    /\ UNCHANGED <<llSorted, llPuts>>

LinkedNext ==
    \/ LinkedNew
    \/ LinkedPutEntry
    \/ LinkedRemoveEntry
    \/ LinkedReset

(***************************************************************************)
(* Specifications                                                          *)
(***************************************************************************)
Init ==
    FsmInit /\ PartInit /\ QueueInit /\ NodeInit /\ ReserveInit /\ FilterIdle /\ MapIdle
        /\ LifeInit /\ LockInit /\ SubmitInit /\ IterInit /\ CountInit /\ RaceInit
        /\ KeyInit /\ SortInit /\ PublisherInit /\ LinkedIdle

\* the initial states of the filter: every component idle, any map of applications
InitFilter ==
    FsmInit /\ PartInit /\ QueueInit /\ NodeInit /\ ReserveInit /\ FilterInit /\ MapIdle
        /\ LifeInit /\ LockInit /\ SubmitInit /\ IterInit /\ CountInit /\ RaceInit
        /\ KeyInit /\ SortInit /\ PublisherInit /\ LinkedIdle

\* the initial states of the map: every component idle, a map with or without compareFunc
InitMap ==
    FsmInit /\ PartInit /\ QueueInit /\ NodeInit /\ ReserveInit /\ FilterIdle /\ MapInit
        /\ LifeInit /\ LockInit /\ SubmitInit /\ IterInit /\ CountInit /\ RaceInit
        /\ KeyInit /\ SortInit /\ PublisherInit /\ LinkedIdle

\* the application state machine under the events of the scheduler
SpecApp == Init /\ [][FsmNext]_vars

\* the partition under RM events, the scheduling driver and the answers of the cache
Spec == Init /\ [][PartNext]_vars

\* the application state machine with state timers that fire when they are due
SpecAppFair ==
    Init /\ [][FsmNext]_vars /\ \A a \in FsmApps : WF_vars(TimeoutStateTimerApp(a))

\* the queue tree under allocations and releases at its leaves
SpecQueue == Init /\ [][QueueNext]_vars

\* one scheduling node under the scheduler's ledger operations and the cache's updates
SpecNode == Init /\ [][NodeNext]_vars

\* the nodes of a partition under reservations, removals and listings
SpecReserve == Init /\ [][ReserveNext]_vars

\* the state-aware filter applied to any map of applications
SpecFilter == InitFilter /\ [][FilterNext]_vars

\* a sortable linked map under Put, Remove and Reset
SpecMap == InitMap /\ [][MapNext]_vars

\* the queues below the root under creation, marking and removal
SpecLife == Init /\ [][LifeNext]_vars

\* the goroutines of the scheduler taking and releasing the locks of their operations
SpecLock == Init /\ [][LockNext]_vars

\* applications added to a partition whose queues and ACLs change
SpecSubmit == Init /\ [][SubmitNext]_vars

\* the calls on a round-robin node iterator
SpecIter == Init /\ [][IterStep]_vars

\* the driver, ask removals and node removals counting the reservations of one application
SpecCount == Init /\ [][CountNext]_vars

\* callers that check a node without lock and then allocate on it under its lock
SpecRace == Init /\ [][RaceNext]_vars

\* reservations of applications with string IDs on one node
SpecKey == Init /\ [][KeyNext]_vars

\* allocations added to and released from any queue of one branch of the tree
SpecBranch == Init /\ [][BranchNext]_vars

\* a slice of requests is filled and sorted by priority
SpecSort == Init /\ [][SortNext]_vars

\* the shim publisher with its goroutine
SpecPublisher == Init /\ [][PublisherNext]_vars

\* the Go scheduler runs the publishing goroutine again and again, SendEvent returns and
\* the sleep ends
SpecPublisherFair == SpecPublisher /\ WF_vars(PublisherStep)

\* a sortable linked map as linked entries with a hash index
SpecLinked == Init /\ [][LinkedNext]_vars

----
\* C1: firing an event moves the application state only along the triples of the
\* transition table (New-Reject->Rejected, New-Run->Accepted, Accepted-Run->Starting,
\* {Starting,Running,Waiting}-Run->Running, {Starting,Running,Waiting}-Complete->Completed,
\* {Accepted,Starting,Running}-Wait->Waiting,
\* {New,Accepted,Starting,Running,Waiting,Killed}-Kill->Killed, Completed-Delete->Deleting);
\* for every other (state, event) pair the state is unchanged and an error is returned.
ListedTriples ==
    {<<"New", "RejectApplication", "Rejected">>,
     <<"New", "RunApplication", "Accepted">>,
     <<"Accepted", "RunApplication", "Starting">>}
    \cup {<<s, "RunApplication", "Running">> : s \in {"Starting", "Running", "Waiting"}}
    \cup {<<s, "CompleteApplication", "Completed">> : s \in {"Starting", "Running", "Waiting"}}
    \cup {<<s, "WaitApplication", "Waiting">> : s \in {"Accepted", "Starting", "Running"}}
    \cup {<<s, "KillApplication", "killed">> :
            s \in {"New", "Accepted", "Starting", "Running", "Waiting", "killed"}}
    \cup {<<"Completed", "DeleteApplication", "Deleting">>}

C1_OnlyListedTransitions ==
    fired # NoEvent =>
        LET now == appState[fired.app]
            listed == {t \in ListedTriples : t[1] = fired.src /\ t[2] = fired.event}
        IN  /\ \A t \in listed : now = t[3]
            /\ listed = {} => (now = fired.src /\ fired.err # "")
            /\ now # fired.src => fired.err = ""

\* an unlisted event was refused and a listed one has moved the state
C1_Witness ==
    /\ fired # NoEvent
    /\ fired.err = "invalid event"
    /\ \E a \in FsmApps : appState[a] = "Deleting"

----
\* the step is psc.allocate: the driver hands over the allocation it holds
AllocateStep == alloc # NoAlloc /\ alloc' = NoAlloc

\* the step is psc.confirmAllocation answering the proposal p
Confirmed(p) == proposals'[p] = proposals[p] - 1

\* C2: for an allocation whose application and node are both registered, allocate returns
\* true exactly when the result is neither reserved nor unreserved: result reserved
\* records the reservation and returns false, result unreserved removes the reservation
\* and returns false, result allocatedReserved removes the reservation and returns true,
\* and any other result returns true without touching reservations.
C2_AllocateByResult ==
    [][(AllocateStep /\ alloc.app \in applications /\ AllocateNodeID(alloc) \in nodes) =>
        LET a == alloc.app
            k == alloc.ask
            n == AllocateNodeID(alloc)
        IN  /\ last'.op = "allocate"
            /\ last'.ret = (alloc.result \notin {"reserved", "unreserved"})
            /\ alloc.result = "reserved" =>
                   /\ <<k, n>> \in appReservations'[a]
                   /\ <<a, k>> \in nodeReservations'[n]
            /\ alloc.result \in {"unreserved", "allocatedReserved"} =>
                   /\ <<k, n>> \notin appReservations'[a]
                   /\ <<a, k>> \notin nodeReservations'[n]
            /\ alloc.result = "allocated" =>
                   UNCHANGED <<appReservations, nodeReservations, reservedApps>>
      ]_vars

\* C3: allocate returns true (emits a proposal) only if both the application of the ask
\* and the node the allocation is placed on (alloc.nodeID) are still registered; if either
\* has been removed it returns false and changes no reservation or counter, for every
\* result kind, including allocatedReserved with a reservedNodeID other than the target.
C3_AllocateOnlyWhenRegistered ==
    [][AllocateStep =>
        LET registered == alloc.app \in applications /\ alloc.nodeID \in nodes
        IN  /\ last'.op = "allocate"
            /\ last'.ret => registered
            /\ ~registered =>
                   /\ ~last'.ret
                   /\ UNCHANGED <<appReservations, nodeReservations, reservedApps,
                                  appAllocating, nodeAllocating, queueAllocating,
                                  requests, appPending>>
      ]_vars

\* C4: once every emitted proposal has been answered by one confirmAllocation call, the
\* allocating resource of every node, every application and every queue remaining in the
\* partition is zero.
C4_NothingLeftAllocating ==
    (alloc = NoAlloc /\ \A p \in ProposalKeys : proposals[p] = 0) =>
        /\ \A a \in applications : IsZero(appAllocating[a])
        /\ \A n \in nodes : IsZero(nodeAllocating[n])
        /\ \A q \in Queues : IsZero(queueAllocating[q])

\* C5: every confirmAllocation call whose application and node are registered decreases
\* the allocating resource of the application, of the application's queue and of the node
\* by exactly the proposal's AllocatedResource, and changes the allocating resource of no
\* other node or application.
C5_ConfirmDecreasesExactly ==
    [][\A p \in ProposalKeys :
        (Confirmed(p) /\ p[1] \in applications /\ p[3] \in nodes) =>
            LET a == p[1]
                n == p[3]
                delta == AskResource(p[2])
            IN  /\ appAllocating'[a] = Sub(appAllocating[a], delta)
                /\ \A q \in QueuePath(appQueue[a]) :
                       queueAllocating'[q] = Sub(queueAllocating[q], delta)
                /\ nodeAllocating'[n] = Sub(nodeAllocating[n], delta)
                /\ \A b \in Apps \ {a} : appAllocating'[b] = appAllocating[b]
                /\ \A m \in Nodes \ {n} : nodeAllocating'[m] = nodeAllocating[m]
      ]_vars

\* C6: a rejected proposal (confirm=false) for an ask that still exists raises that ask's
\* pending repeat by exactly 1 and changes no other ask; a confirmed proposal leaves every
\* pending repeat unchanged; a reject for an ask that was removed in the meantime changes
\* no pending repeat.
C6_RejectRestoresRepeat ==
    [][\A p \in ProposalKeys :
        Confirmed(p) =>
            LET a == p[1]
                k == p[2]
            IN  /\ last'.op = "confirmAllocation"
                /\ (~last'.confirm /\ k \in DOMAIN requests[a]) =>
                       requests' =
                           [requests EXCEPT ![a] = MapPut(requests[a], k, requests[a][k] + 1)]
                /\ last'.confirm => requests' = requests
                /\ (~last'.confirm /\ k \notin DOMAIN requests[a]) => requests' = requests
      ]_vars

\* C7: confirmAllocation with confirm=true returns an error when the ask named by the
\* proposal no longer exists in the application, and returns nil when application, node
\* and ask all exist; it also returns an error, without changing any counter, when the
\* application or the node is no longer registered.
C7_ConfirmErrors ==
    [][\A p \in ProposalKeys :
        Confirmed(p) =>
            LET a == p[1]
                k == p[2]
                n == p[3]
                registered == a \in applications /\ n \in nodes
                askExists == k \in DOMAIN requests[a]
            IN  /\ last'.op = "confirmAllocation"
                /\ (last'.confirm /\ registered /\ ~askExists) => last'.ret # ""
                /\ (last'.confirm /\ registered /\ askExists) => last'.ret = ""
                /\ ~registered =>
                       /\ last'.ret # ""
                       /\ UNCHANGED <<appAllocating, queueAllocating, nodeAllocating,
                                      requests, appPending, reservedApps>>
      ]_vars

\* a confirmation has found the application and the node but not the ask
C7_Witness ==
    /\ last.op = "confirmAllocation"
    /\ last.confirm
    /\ last.ret = "ask was removed"

\* the number of reservations application a holds on registered nodes
ReservationsOnNodes(a) == Cardinality({r \in appReservations[a] : r[2] \in nodes})

\* C8: after any sequence of partition operations, for every application the count in
\* reservedApps equals the number of reservations the application holds on nodes
\* registered in the partition, and every reservation recorded on a node is also recorded
\* in its application and vice versa.
C8_ReservationIndexesAgree ==
    released = NoRelease =>
        /\ \A a \in applications : Count(reservedApps, a) = ReservationsOnNodes(a)
        /\ \A a \in applications, n \in nodes, k \in AskKeys :
               <<a, k>> \in nodeReservations[n] <=> <<k, n>> \in appReservations[a]

\* C9: after any sequence of ask-ledger operations on an application, the application's
\* pending resource equals the sum over its asks of ask resource times pending repeat.
C9_PendingIsLedgerSum ==
    \A a \in Apps : appPending[a] = LedgerSum(requests[a], DOMAIN requests[a])

\* a rejected proposal has put a repeat back on an application that holds two asks
C9_Witness ==
    /\ last.op = "confirmAllocation"
    /\ ~last.confirm
    /\ last.ret = ""
    /\ \E a \in applications :
           /\ DOMAIN requests[a] = AskKeys
           /\ \E k \in AskKeys : requests[a][k] = MaxRepeat + 1

\* the leaf queues at or below queue q
LeafDescendants(q) ==
    {l \in QueueNames : IsLeaf(l) /\ q \in {l, Parent(l), "root"}}

\* the allocated resources of a set of queues added up
RECURSIVE SumAllocated(_)
SumAllocated(qs) ==
    IF qs = {} THEN Zero
    ELSE LET q == CHOOSE x \in qs : TRUE
         IN  Add(allocatedResource[q], SumAllocated(qs \ {q}))

\* C10: after any sequence of allocated-resource increments and decrements applied at leaf
\* queues, the allocated resource of every queue equals the sum of the allocated resources
\* of its leaf descendants; an increment followed by the same decrement on a child returns
\* the root's allocated resource to its previous value.
C10_AllocatedIsLeafSum ==
    /\ \A q \in QueueNames : allocatedResource[q] = SumAllocated(LeafDescendants(q))
    /\ (qLast.op = "dec" /\ qLast.undoes) =>
           /\ qLast.err = ""
           /\ allocatedResource["root"] = qLast.rootBefore

\* a release has taken back the increment before it while both subtrees hold allocations
C10_Witness ==
    /\ qLast.op = "dec"
    /\ qLast.undoes
    /\ ~IsZero(allocatedResource["root.parent"])
    /\ ~IsZero(allocatedResource["root.leaf"])

\* C11: after any sequence of non-forced IncAllocatedResource and decAllocatedResource
\* calls, every queue that has a max resource set has allocated <= max in every resource
\* type: an increment that would breach the max of the queue or of any ancestor fails and
\* leaves the allocated resource of every queue unchanged.
C11_AllocatedWithinMax ==
    [][/\ \A q \in QueueNames : FitIn(MaxResource(q), allocatedResource'[q])
       /\ \A q \in QueueNames, res \in Allocations :
              (/\ qLast'.op = "inc"
               /\ qLast'.queue = q
               /\ qLast'.res = res
               /\ \E x \in {q, Parent(q), "root"} :
                      ~FitIn(MaxResource(x), Add(allocatedResource[x], res)))
              => (qLast'.err # "" /\ allocatedResource' = allocatedResource)
      ]_vars

\* an increment at a leaf that fits the leaf was refused because its parent is full
C11_Witness ==
    /\ qLast.op = "inc"
    /\ qLast.err = "quota-exceeded"
    /\ qLast.queue = "root.parent.leaf1"
    /\ FitIn(MaxResource("root.parent.leaf1"),
             Add(allocatedResource["root.parent.leaf1"], qLast.res))
    /\ ~FitIn(MaxResource("root.parent"), Add(allocatedResource["root.parent"], qLast.res))

\* C12: whenever the cached available resource of a scheduling node is marked valid
\* (cachedAvailableUpdateNeeded is false), it equals the current available resource of the
\* cache node minus the allocating resource of the node, so that getAvailableResource never
\* returns a value computed before a change of the allocating resource or of the cache node.
C12_CachedAvailableCurrent ==
    ~cachedAvailableUpdateNeeded => cachedAvailable = Sub(nodeInfoAvailable, snAllocating)

\* C13: an allocateResource that returns false leaves the allocating resource and the
\* validity flag of the cached available resource as they were; one that returns true has
\* raised the allocating resource by exactly the requested resource.
C13_AllocateResourceFrame ==
    [][snLast'.op = "allocateResource" =>
           IF snLast'.ok
           THEN snAllocating' = Add(snAllocating, snLast'.res)
           ELSE /\ snAllocating' = snAllocating
                /\ cachedAvailableUpdateNeeded' = cachedAvailableUpdateNeeded
      ]_vars

\* a failed allocateResource on a node with a valid cached value and a non-zero allocating
\* resource
C13_Witness ==
    /\ snLast.op = "allocateResource"
    /\ ~snLast.ok
    /\ ~cachedAvailableUpdateNeeded
    /\ snAllocating # Zero

\* C14: reserve(appB, ask) on a node that already holds a reservation of a different
\* application succeeds when the ask fits the total capacity of the node, and afterwards
\* the node holds both reservations.
C14_ReserveBesideOtherApp ==
    [][(/\ rsLast'.op = "reserve"
        /\ FitInNode(AskResource(rsLast'.ask))
        /\ rsReservations[rsLast'.node] # {}
        /\ \A r \in rsReservations[rsLast'.node] : r[1] # rsLast'.app)
       => /\ rsLast'.ok
          /\ rsReservations'[rsLast'.node] =
                 rsReservations[rsLast'.node]
                     \cup {ReservationKey(rsLast'.app, rsLast'.ask)}
      ]_vars

\* C15: in every reachable state a node holds at most one reservation per application.
C15_OneReservationPerApp ==
    \A n \in Nodes, app \in ReserveApps :
        Cardinality({r \in rsReservations[n] : r[1] = app}) <= 1

\* an application that holds a reservation on a node was refused a second one, for
\* another ask that fits the node
C15_Witness ==
    /\ rsLast.op = "reserve"
    /\ ~rsLast.ok
    /\ FitInNode(AskResource(rsLast.ask))
    /\ \E r \in rsReservations[rsLast.node] : r[1] = rsLast.app /\ r[2] # rsLast.ask

\* C16: getSchedulableNodes() holds exactly the registered nodes that are schedulable and
\* hold no reservation, getSchedulingNodes(false) exactly the registered nodes that are
\* schedulable; neither holds an unschedulable or an unregistered node.
C16_NodeListsExact ==
    rsLast.op = "getSchedulingNodes" =>
        /\ rsLast.list =
               {n \in rsNodes : rsSchedulable[n]
                                   /\ (rsLast.excludeReserved => rsReservations[n] = {})}
        /\ \A n \in rsLast.list : n \in rsNodes /\ rsSchedulable[n]

\* a listing without reserved nodes that leaves out one reserved and one unschedulable node
C16_Witness ==
    /\ rsLast.op = "getSchedulingNodes"
    /\ rsLast.excludeReserved
    /\ \E n \in rsNodes : rsSchedulable[n] /\ rsReservations[n] # {} /\ n \notin rsLast.list
    /\ \E n \in rsNodes : ~rsSchedulable[n] /\ rsReservations[n] = {}

\* C17: the candidate list returned by StateAwareFilter holds at most one application
\* whose state is not Running, for any set of applications.
C17_OneNonRunningCandidate ==
    faDone =>
        Cardinality({i \in 1..Len(faResult) : faApps[faResult[i]].state # "Running"}) <= 1

\* C18: StateAwareFilter returns no application in state Accepted when any application of
\* the input is in state Starting, whatever the iteration order of the map and even when
\* the Starting application has no pending resource.
C18_NoAcceptedWhileStarting ==
    (faDone /\ \E a \in FilterApps : faApps[a].state = "Starting")
        => \A i \in 1..Len(faResult) : faApps[faResult[i]].state # "Accepted"

\* the filter ran over a map in which an Accepted application with pending resources is
\* visited before the only Starting application, which has no pending resource
C18_Witness ==
    /\ faDone
    /\ \E i, j \in FilterApps :
           /\ i < j
           /\ faApps[faOrder[i]].state = "Accepted"
           /\ faApps[faOrder[i]].pending # Zero
           /\ faApps[faOrder[j]].state = "Starting"
           /\ faApps[faOrder[j]].pending = Zero
           /\ \A a \in FilterApps \ {faOrder[j]} : faApps[a].state # "Starting"

\* C19: after any sequence of Put (of new keys and of existing keys with changed values),
\* Remove and Reset, GetFirstMatched returns the first entry in list order whose current
\* value satisfies matchFunc and (nil, nil) exactly when no value satisfies it, and
\* HasMatched is true exactly when such an entry exists, with and without a compareFunc.
C19_FirstMatchedIsFirstInList ==
    LET matching == {i \in 1..Len(slmList) : MatchFunc(slmList[i].value)}
        first == CHOOSE i \in matching : \A j \in matching : i <= j
    IN  /\ HasMatched(slmFirstMatchedEntry) <=> matching # {}
        /\ GetFirstMatched(slmList, slmFirstMatchedEntry) =
               IF matching = {} THEN <<NilEntry, NilEntry>>
               ELSE <<slmList[first].key, slmList[first].value>>

\* C20: with a compareFunc that is a strict weak order a Put of a new key and a Remove
\* keep the entries in list order sorted (no entry is followed by an entry that compareFunc
\* places before it); without a compareFunc a Put of a new key appends, so the list order
\* is the insertion order; a Remove takes out its entry and keeps the order of the others.
C20_ListOrder ==
    [][LET Sorted(list) ==
               \A i, j \in 1..Len(list) :
                   i < j => ~CompareFunc(list[j].value, list[i].value)
           entry == [key |-> slmLast'.key, value |-> slmLast'.value,
                     isMatched |-> MatchFunc(slmLast'.value)]
       IN  /\ (slmLast'.op = "Put" /\ slmLast'.key \notin EntryKeys(slmList)) =>
                  /\ SelectSeq(slmList', LAMBDA e : e.key # slmLast'.key) = slmList
                  /\ entry \in {slmList'[i] : i \in 1..Len(slmList')}
                  /\ (slmSorted /\ Sorted(slmList)) => Sorted(slmList')
                  /\ ~slmSorted => slmList' = Append(slmList, entry)
           /\ slmLast'.op = "Remove" =>
                  /\ slmList' = SelectSeq(slmList, LAMBDA e : e.key # slmLast'.key)
                  /\ (slmSorted /\ Sorted(slmList)) => Sorted(slmList')
      ]_vars

\* a sorted map of three entries whose last Put placed a new key between the two others
C20_Witness ==
    /\ slmSorted
    /\ slmLast.op = "Put"
    /\ Len(slmList) = 3
    /\ slmList[2].key = slmLast.key
    /\ slmList[1].value < slmList[2].value
    /\ slmList[2].value < slmList[3].value
    /\ slmList[1].key > slmList[3].key

\* C21: Put on a key that is already in the map replaces the value and returns the previous
\* value, and leaves the sequence of keys in list order, with it the head and the tail, and
\* the size unchanged, also when the new value would sort to a different position.
C21_PutExistingKeepsOrder ==
    [][(slmLast'.op = "Put" /\ slmLast'.key \in EntryKeys(slmList)) =>
           LET i == EntryIndex(slmList, slmLast'.key)
           IN  /\ Len(slmList') = Len(slmList)
               /\ \A j \in 1..Len(slmList) : slmList'[j].key = slmList[j].key
               /\ \A j \in 1..Len(slmList) \ {i} : slmList'[j].value = slmList[j].value
               /\ slmList'[i].value = slmLast'.value
               /\ slmLast'.ret = slmList[i].value
      ]_vars

\* a sorted map whose head was updated to a value that sorts after the value of the tail
C21_Witness ==
    /\ slmSorted
    /\ slmLast.op = "Put"
    /\ slmLast.ret # NilEntry
    /\ slmLast.ret # slmLast.value
    /\ Len(slmList) = 3
    /\ slmList[1].key = slmLast.key
    /\ CompareFunc(slmList[3].value, slmList[1].value)

C24_TimerLeavesStartingAndWaiting ==
    \A a \in FsmApps :
        /\ (appState[a] = "Starting") ~>
               \/ appState[a] = "Running"
               \/ /\ appState[a] # "Starting"
                  /\ fired.app = a /\ fired.src = "Starting" /\ fired.err = ""
                  /\ fired.event # "RunApplication"
        /\ (appState[a] = "Waiting") ~>
               \/ appState[a] = "Completed"
               \/ /\ appState[a] # "Waiting"
                  /\ fired.app = a /\ fired.src = "Waiting" /\ fired.err = ""
                  /\ fired.event # "CompleteApplication"

\* an application moved from Starting to Running, which cleared its state timer, while
\* another moved from Waiting to Completed
C24_Witness ==
    \E a, b \in FsmApps :
        /\ appState[a] = "Running" /\ ~stateTimer[a]
        /\ fired.app = a /\ fired.src = "Starting" /\ fired.event = "RunApplication"
        /\ fired.err = ""
        /\ appState[b] = "Completed"

\* C29: the state timer of an application is armed exactly while the application is in
\* Starting or Waiting; in New, Accepted, Running, Completed, Rejected, Killed and Deleting
\* no state timer is armed.
C29_TimerOnlyInStartingWaiting ==
    \A a \in FsmApps : stateTimer[a] <=> appState[a] \in {"Starting", "Waiting"}

\* C30: an application is in Accepted before it is first in Starting and in Starting before
\* it is first in Running: Running is never reached by an application that has not been in
\* Starting.
C30_StartingBeforeRunning ==
    [][\A a \in FsmApps :
           /\ (appState'[a] = "Starting" /\ appState[a] # "Starting")
                  => appState[a] = "Accepted"
           /\ appState'[a] = "Running" => wasStarting'[a]
      ]_vars

\* C25: locks are only ever acquired in the order partition, queue, application, node: no
\* goroutine requests the partition lock, or any lock, while it holds a lock that comes
\* later in the order, so that concurrent tryAllocate, tryReservedAllocate, allocate,
\* confirmAllocation, removeSchedulingApplication and removeSchedulingNode never deadlock.
C25_LockOrderNoDeadlock ==
    /\ \A t \in LockThreads :
           NextLockCall(t)[1] \in {"Lock", "RLock"} =>
               \A h \in lkHeld[t] : LockRank(h[1]) < LockRank(NextLockCall(t)[2])
    /\ ~LockDeadlock

\* C26: addSchedulingApplication registers an application only if the user has submit
\* access, to the target leaf when it exists, otherwise to the deepest existing queue
\* above it; when access is denied it returns an error, creates no queue, and the
\* application is neither in the application map of the partition nor in any queue.
C26_SubmitAccessGuardsRegistration ==
    [][asLast'.op = "addSchedulingApplication" /\ asLast'.app \notin asApplications =>
          LET access == CheckSubmitAccess(asAcl, DeepestExisting(asQueues, asLast'.queue))
          IN  /\ asLast'.app \in asApplications' => access
              /\ ~access =>
                     /\ asLast'.ret = "error"
                     /\ asQueues' = asQueues
                     /\ asLast'.app \notin asApplications'
                     /\ \A q \in DOMAIN asQueueApps : asLast'.app \notin asQueueApps'[q]]_vars

\* C27: over n > 0 nodes the Next calls of an epoch return the nodes in cyclic order from
\* the start index, node (start + i) mod n at call i, so n calls return every node exactly
\* once; after them HasNext is false and Next returns nil until Reset; Reset unsets the
\* start index, sets the count to 0 and makes HasNext true again; over a nil or empty
\* list HasNext is false, Next returns nil, and neither changes start index or count.
C27_RoundRobinEpoch ==
    /\ Len(rrReturned) = rrCountIdx /\ rrCountIdx <= rrSize
    /\ \A i \in 1..Len(rrReturned) : rrReturned[i] = (rrStartIdx + i - 1) % rrSize
    /\ rrCountIdx = rrSize =>
           /\ {rrReturned[i] : i \in 1..Len(rrReturned)} = 0..(rrSize - 1)
           /\ ~RoundRobinHasNext(rrCountIdx, rrSize)
    /\ rrLast.op = "Next" /\ rrLast.countIdx = rrSize =>
           /\ rrLast.ret = NilNode
           /\ rrStartIdx = rrLast.startIdx /\ rrCountIdx = rrLast.countIdx
    /\ rrLast.op = "Next" /\ rrLast.countIdx < rrSize =>
           /\ rrLast.ret = (rrStartIdx + rrLast.countIdx) % rrSize
           /\ rrLast.startIdx # UnsetIdx => rrStartIdx = rrLast.startIdx
    /\ rrLast.op = "HasNext" =>
           /\ rrLast.ret = (IF rrCountIdx < rrSize THEN 1 ELSE 0)
           /\ rrStartIdx = rrLast.startIdx /\ rrCountIdx = rrLast.countIdx
    /\ rrLast.op = "Reset" =>
           /\ rrStartIdx = UnsetIdx /\ rrCountIdx = 0
           /\ rrSize > 0 => RoundRobinHasNext(rrCountIdx, rrSize)

\* a wrapped epoch over several nodes is complete and one more Next has returned nil
C27_Witness ==
    /\ rrSize > 1 /\ rrStartIdx > 0 /\ rrCountIdx = rrSize
    /\ rrLast.op = "Next" /\ rrLast.ret = NilNode

\* C28: the set of applications StateAwareFilter returns does not depend on the order in
\* which the map of applications is iterated, also when two Accepted applications with
\* pending resources have the same submission time.
C28_ResultIndependentOfOrder ==
    faDone =>
        \A order \in IterationOrders :
            LET other == StateAwareFilter(faApps, order)
            IN  {other[i] : i \in 1..Len(other)} = {faResult[i] : i \in 1..Len(faResult)}

\* C31: createSchedulingQueue, and with it addSchedulingApplication, terminates for every
\* queue name, also when two or more levels below the deepest existing scheduling queue
\* are missing: the call returns, with the queue of the application existing or with an
\* error.
C31_AddSchedulingApplicationReturns ==
    asLast.op = "addSchedulingApplication" =>
        /\ asLast.ret \in {"nil", "error"}
        /\ asLast.ret = "nil" => asLast.queue \in asQueues

\* C37: addSchedulingApplication with an application ID that is already registered returns
\* an error and changes nothing: the registered application stays in the application map
\* and in its queue, the placement is not run and no queue is created.
C37_DuplicateApplicationRejected ==
    [][asLast'.op = "addSchedulingApplication" /\ asLast'.app \in asApplications =>
          /\ asLast'.ret = "error"
          /\ ~asLast'.placement
          /\ UNCHANGED <<asCache, asQueues, asAcl, asApplications, asQueueApps>>]_vars

\* a registered application was added again, for a queue that could have been created
C37_Witness ==
    /\ asLast.op = "addSchedulingApplication" /\ asLast.ret = "error" /\ ~asLast.placement
    /\ asLast.app \in asApplications
    /\ asLast.queue \notin asQueues /\ asCache[asLast.queue] = "leaf"
    /\ ParentPath(asLast.queue) \in asQueues /\ CheckSubmitAccess(asAcl, ParentPath(asLast.queue))

\* C32: in any interleaving of unReserveUpdate after an ask removal, allocate with result
\* unreserved or allocatedReserved, and removeSchedulingNode, the reservedApps map of the
\* partition never holds a zero or negative count: an entry is absent or at least 1.
C32_CounterPositive == \A a \in DOMAIN rcReservedApps : rcReservedApps[a] >= 1

\* C33: for any interleaving of concurrent allocateResource calls on one node, outside the
\* preemption phase and with the cache node unchanged, the calls that returned true have
\* a total that fits: the allocating resource of the node is the total of these calls and
\* fits in the available resource of the cache node, also when the preAllocateCheck of
\* several callers passed on the same earlier state.
C33_GrantedTotalFits ==
    /\ raAllocating = raGranted
    /\ FitIn(NodeAvailable, raAllocating)

\* two callers passed preAllocateCheck on the same state, with requests that do not fit
\* together: allocateResource returned true for one and false for the other
C33_Witness ==
    \E c, d \in Callers :
        /\ raCallers[c].pc = "done" /\ raCallers[c].ok
        /\ raCallers[d].pc = "done" /\ ~raCallers[d].ok
        /\ raCallers[c].seen = raCallers[d].seen
        /\ ~FitIn(NodeAvailable, Add(raCallers[c].seen, Add(raCallers[c].res, raCallers[d].res)))

\* C34: isReservedForApp(appID) returns true if and only if the node holds a reservation
\* made by the application whose ID is exactly appID: false for an application without a
\* reservation on the node, also when its ID is a prefix of the ID of an application that
\* has one, and false for the empty ID.
C34_ReservedForExactApp ==
    rkLast.op = "isReservedForApp" =>
        (rkLast.ret <=> /\ rkLast.appID # <<>>
                        /\ \E r \in rkReservations : r.appID = rkLast.appID)

\* C35: decAllocatedResource on a queue returns an error whenever the amount exceeds, in
\* some resource type, the allocated resource of the queue or of one of its ancestors, and
\* succeeds when the amount fits at every level.
C35_DecFailsIffNegativeAtSomeLevel ==
    [][qLast'.op = "dec" =>
          LET exceeds == \E x \in {qLast'.queue, Parent(qLast'.queue), "root"} :
                             ~FitIn(allocatedResource[x], qLast'.res)
          IN  (qLast'.err # "") <=> exceeds]_vars

\* a decrement on a child that fits the child has failed after the root was decremented
\* separately
C35_Witness ==
    /\ qLast.op = "dec" /\ qLast.err # "" /\ qLast.queue = "root.parent"
    /\ FitIn(allocatedResource["root.parent"], qLast.res)
    /\ ~FitIn(allocatedResource["root"], qLast.res)

\* C36: after any sequence of Put (updates of existing keys included) and Remove,
\* GetMatchedIterator yields, in list order and each once, precisely the entries whose
\* current value satisfies matchFunc, and GetIterator yields every entry once in list order.
C36_IteratorsYieldListOrder ==
    LET pair(e) == <<e.key, e.value>>
        all == [i \in 1..Len(slmList) |-> pair(slmList[i])]
        matching == SelectSeq(slmList, LAMBDA e : MatchFunc(e.value))
    IN  /\ GetIterator(slmList, slmFirstMatchedEntry) = all
        /\ GetMatchedIterator(slmList, slmFirstMatchedEntry) =
               [i \in 1..Len(matching) |-> pair(matching[i])]

\* GetIterator alone yields every entry once in list order
C36_PlainIteratorYieldsAll ==
    GetIterator(slmList, slmFirstMatchedEntry) =
        [i \in 1..Len(slmList) |-> <<slmList[i].key, slmList[i].value>>]

\* C38: after SortAskByPriority(requests, ascending) the slice is a permutation of the
\* input, ordered by priority (highest first when ascending is false, lowest first when
\* it is true) and, among requests of one priority, by create time, earliest first.
C38_SortedByPriorityThenCreateTime ==
    [][skLast'.op = "sort" =>
          LET n == Len(skRequests)
              after == skRequests'
          IN  /\ Len(after) = n
              /\ \A i \in 1..n : \E j \in 1..n : after[j] = skRequests[i]
              /\ \A i, j \in 1..n :
                     i < j =>
                        /\ IF skLast'.ascending
                           THEN after[i].priority <= after[j].priority
                           ELSE after[i].priority >= after[j].priority
                        /\ after[i].priority = after[j].priority =>
                               after[i].createTime <= after[j].createTime]_vars

\* a descending sort has moved a later request of the highest priority to the head and
\* has put two requests of one priority in the order of their create times against the
\* order they came in
C38_Witness ==
    /\ skLast.op = "sort" /\ ~skLast.ascending
    /\ Len(skRequests) = 3
    /\ skRequests[1].id = 3
    /\ skRequests[2].id = 2 /\ skRequests[3].id = 1
    /\ skRequests[2].priority = skRequests[3].priority
    /\ skRequests[2].createTime < skRequests[3].createTime

\* C39: after Stop on a started shimPublisher the publishing goroutine eventually exits
\* under fair scheduling; once it has seen the stop flag at the head of its loop it starts
\* no other iteration, so at most the iteration in progress when Stop was called still
\* sends events.
C39_PublisherExitsAfterStop ==
    /\ (spStopped /\ spPc # "new") ~> (spPc = "exited" \/ spPanicked)
    /\ [][spPc = "exited" => spPc' = "exited"]_vars
    /\ [](spSendsAfterStop <= 1)

\* the goroutine has exited after Stop and the iteration that was in progress when Stop
\* was called has sent its events
C39_Witness ==
    /\ spStopped /\ ~spPanicked
    /\ spPc = "exited"
    /\ spSendsAfterStop = 1

\* the linked list and the hash index agree: following next from the head visits exactly
\* the keys of the index, each once, and ends at the tail; Size is that number; pre and
\* next mirror each other with head.pre and tail.next nil; GetHead and GetTail return the
\* first and the last entry, and (nil, nil) exactly when the map is empty
LinkedListAgreesWithIndex ==
    LET m == LinkedMap
        keys == LinkedKeys(m.nodes, m.head, NumMapKeys + 1)
        n == Len(keys)
    IN  /\ {keys[i] : i \in 1..n} = m.entries
        /\ \A i, j \in 1..n : i # j => keys[i] # keys[j]
        /\ LinkedSize(m) = n
        /\ m.tail = IF n = 0 THEN NilEntry ELSE keys[n]
        /\ \A i \in 1..n :
               /\ m.nodes[keys[i]].pre = IF i = 1 THEN NilEntry ELSE keys[i - 1]
               /\ m.nodes[keys[i]].next = IF i = n THEN NilEntry ELSE keys[i + 1]
        /\ LinkedGetEntry(m, m.head) =
               IF n = 0 THEN <<NilEntry, NilEntry>> ELSE <<keys[1], m.nodes[keys[1]].value>>
        /\ LinkedGetEntry(m, m.tail) =
               IF n = 0 THEN <<NilEntry, NilEntry>> ELSE <<keys[n], m.nodes[keys[n]].value>>
        /\ (LinkedGetEntry(m, m.head) = <<NilEntry, NilEntry>>) <=> (m.entries = {})
        /\ (LinkedGetEntry(m, m.tail) = <<NilEntry, NilEntry>>) <=> (m.entries = {})

\* C40: after any sequence of Put, Remove and Reset the linked list and the hash index
\* agree, and Get(k) returns the value of the latest Put(k) not followed by Remove(k), else
\* nil.
C40_ListIndexAndGet ==
    /\ LinkedListAgreesWithIndex
    /\ \A k \in MapKeys : LinkedGet(LinkedMap, k) = llPuts[k]

\* C40, amended: the linked list and the hash index agree, and Get(k) returns the value of
\* the latest Put(k) not followed by Remove(k) or by Reset, else nil: a Put sets what Get
\* returns for its key, a Remove makes it nil for its key, a Reset for every key, and no
\* operation changes it for another key.
C40_ListIndexAndGetSinceReset ==
    /\ [](LinkedListAgreesWithIndex)
    /\ [][LET before == LinkedMap
              after == [entries |-> llEntries', nodes |-> llNodes', head |-> llHead',
                        tail |-> llTail', firstMatchedEntry |-> llFirstMatchedEntry']
          IN  \A k \in MapKeys :
                  LinkedGet(after, k) =
                      IF llLast'.op = "Reset" THEN NilEntry
                      ELSE IF llLast'.op = "Put" /\ llLast'.key = k THEN llLast'.value
                      ELSE IF llLast'.op = "Remove" /\ llLast'.key = k THEN NilEntry
                      ELSE LinkedGet(before, k)]_vars

\* a sorted map of three entries from which the entry in the middle was removed: the two
\* others are linked to each other
C40_Witness ==
    /\ llSorted
    /\ llLast.op = "Remove"
    /\ llEntries = MapKeys \ {llLast.key}
    /\ llHead # llTail
    /\ llNodes[llHead].next = llTail
    /\ llNodes[llTail].pre = llHead
    /\ llNodes[llHead].value < llNodes[llTail].value
    /\ llHead > llTail

====
